---- MODULE Spec2Model ----
(***************************************************************************)
(* A model of the fsm metadata store (DAC098/file-meta): the store         *)
(* locator, the codec, the command handlers that load, mutate and save     *)
(* the store, and the file system they act on.                             *)
(*                                                                         *)
(* Five specifications share the variables:                                *)
(*   Spec       whole commands run one after the other on an empty disk    *)
(*   SpecSave   one save of a store changed in memory in any way           *)
(*   SpecTree   the locator, init and drop on arbitrary directory trees    *)
(*   SpecBatch  one set with a batch of paths on an existing store         *)
(*   SpecRace   two set processes whose system calls interleave            *)
(***************************************************************************)
EXTENDS Integers, Sequences, FiniteSets, TLC

VARIABLES
    fs,      \* the directory chain: per level, the .fsm entry and the db files
    now,     \* the wall clock read by time::datetime_now
    last,    \* the last finished command: arguments, outcome, messages
    pc,      \* SpecRace: position of each process
    ctx,     \* SpecRace: the Context each process holds in memory
    hist     \* SpecRace: the order of the loads and the saves

vars == <<fs, now, last, pc, ctx, hist>>

----------------------------------------------------------------------------
(* Bounds *)

\* number of directories on the ancestor chain, the filesystem root included
Depth == 2
\* the clock stops here; every command takes one tick
MaxClock == 3
\* longest list of paths given to one command
MaxBatch == 2

----------------------------------------------------------------------------
(* Option<T>: None is the empty sequence, Some(v) is <<v>> *)

\* With(e, F) is F of the value of e, which is evaluated once
With(e, F(_)) == CHOOSE r \in {F(v) : v \in {e}} : TRUE

None == <<>>
Some(v) == <<v>>
IsSome(o) == Len(o) = 1
Unwrap(o) == o[1]

\* names of the directories below the filesystem root, outermost first
DirNames == <<"d1", "d2", "d3", "d4">>

Levels == 0 .. (Depth - 1)

\* the absolute path of the directory at a level, as its components
DirPath(level) == SubSeq(DirNames, 1, level)

----------------------------------------------------------------------------
(* db.rs: formats *)

Formats == {"JsonPretty", "Json", "Binary"}

\* variant: the list in the reverse order
FORMAT_LIST_binary_first == <<"Binary", "Json", "JsonPretty">>

FORMAT_LIST == <<"JsonPretty", "Json", "Binary">>

----------------------------------------------------------------------------
(* The file system.  fs[level].fsm is the kind of the entry named .fsm in  *)
(* that directory; fs[level].db[format] is the entry with the format's     *)
(* file name inside it: its kind and, for a regular file, its contents.    *)

NoEntry == [kind |-> "none", data |-> <<>>]
DirEntry == [kind |-> "dir", data |-> <<>>]
FileEntry(data) == [kind |-> "file", data |-> data]

EmptyFsmDir == [f \in Formats |-> NoEntry]

NoFsm == [fsm |-> "none", db |-> EmptyFsmDir]

\* fs::get_metadata: None when nothing has that name, else what kind it is
get_metadata_fsm(tree, level) ==
    IF tree[level].fsm = "none" THEN None ELSE Some(tree[level].fsm)

get_metadata_db(tree, level, format) ==
    IF tree[level].db[format].kind = "none"
    THEN None
    ELSE Some(tree[level].db[format].kind)

----------------------------------------------------------------------------
(* db.rs: Context::find_file *)

\* the inner loop: the first format, from index i on, whose file is regular
RECURSIVE find_format(_, _, _)
find_format(tree, level, i) ==
    IF i > Len(FORMAT_LIST)
    THEN None
    ELSE LET metadata == get_metadata_db(tree, level, FORMAT_LIST[i])
         IN  IF ~IsSome(metadata)
             THEN find_format(tree, level, i + 1)
             ELSE IF Unwrap(metadata) # "file"
             THEN find_format(tree, level, i + 1)
             ELSE Some(FORMAT_LIST[i])

\* the outer loop over ref_path.ancestors(): level, level - 1, ..., 0
RECURSIVE find_file(_, _)
find_file(tree, level) ==
    IF level < 0
    THEN None
    ELSE LET metadata == get_metadata_fsm(tree, level)
         IN  IF ~IsSome(metadata)
             THEN find_file(tree, level - 1)
             ELSE IF Unwrap(metadata) # "dir"
             THEN find_file(tree, level - 1)
             ELSE LET found == find_format(tree, level, 1)
                  IN  IF IsSome(found)
                      THEN Some([level |-> level, format |-> Unwrap(found)])
                      ELSE find_file(tree, level - 1)

----------------------------------------------------------------------------
(* Maps (BTreeMap) are functions; the empty map has the empty domain. *)

EmptyMap == [x \in {} |-> x]
Insert(m, k, v) == [x \in (DOMAIN m) \cup {k} |-> IF x = k THEN v ELSE m[x]]
Remove(m, k) == [x \in (DOMAIN m) \ {k} |-> m[x]]
ContainsKey(m, k) == k \in DOMAIN m

(* The order of strings (str::cmp) on the names the model uses, smallest   *)
(* first; a StoreKey is the sequence of its components, compared one       *)
(* component after the other.                                              *)

StrOrder == <<"!SELF", "a", "b", "c", "d1", "d2", "d3", "d4", "t1", "t2", "x">>

StrLess(a, b) ==
    \E i, j \in 1 .. Len(StrOrder) : StrOrder[i] = a /\ StrOrder[j] = b /\ i < j

RECURSIVE KeyLess(_, _)
KeyLess(a, b) ==
    IF Len(a) = 0 THEN Len(b) > 0
    ELSE IF Len(b) = 0 THEN FALSE
    ELSE IF a[1] = b[1] THEN KeyLess(Tail(a), Tail(b))
    ELSE StrLess(a[1], b[1])

\* the elements of a set in ascending order (BTreeMap / BTreeSet iteration)
RECURSIVE SortedKeys(_)
SortedKeys(S) ==
    IF S = {} THEN <<>>
    ELSE LET m == CHOOSE x \in S : \A y \in S \ {x} : KeyLess(x, y)
         IN  <<m>> \o SortedKeys(S \ {m})

RECURSIVE SortedNames(_)
SortedNames(S) ==
    IF S = {} THEN <<>>
    ELSE LET m == CHOOSE x \in S : \A y \in S \ {x} : StrLess(x, y)
         IN  <<m>> \o SortedNames(S \ {m})

----------------------------------------------------------------------------
(* tags.rs: TagValue; db.rs: FileData, Db *)

Number(n) == [variant |-> "Number", num |-> n, text |-> "", flag |-> FALSE]
Bool(b) == [variant |-> "Bool", num |-> 0, text |-> "", flag |-> b]
Url(u) == [variant |-> "Url", num |-> 0, text |-> u, flag |-> FALSE]
Simple(s) == [variant |-> "Simple", num |-> 0, text |-> s, flag |-> FALSE]

\* FileData::default at time t
FileData_default(t) ==
    [tags |-> EmptyMap, comment |-> None, created |-> t, updated |-> None]

\* Db::default at time t
Db_default(t) ==
    [files |-> EmptyMap, collections |-> EmptyMap, tags |-> EmptyMap,
     comment |-> None, created |-> t, updated |-> None]

----------------------------------------------------------------------------
(* The codec.  chrono writes a DateTime as its RFC 3339 text and reads it  *)
(* back by parsing that text, in the JSON formats and in bincode alike.    *)

to_rfc3339(t) == [rfc3339 |-> t]
parse_rfc3339(s) == s.rfc3339

(* serde_json: the document is a tree of null, strings, numbers, booleans, *)
(* arrays and objects; an object is the map from its member names.  The    *)
(* pretty and the compact writer differ in white space only.               *)

J(k, v) == [k |-> k, v |-> v]

\* an externally tagged enum: {"Variant": payload}
ToJsonTagValue(tv) ==
    CASE tv.variant = "Number" -> J("obj", [x \in {"Number"} |-> J("num", tv.num)])
      [] tv.variant = "Bool" -> J("obj", [x \in {"Bool"} |-> J("bool", tv.flag)])
      [] tv.variant = "Url" -> J("obj", [x \in {"Url"} |-> J("str", tv.text)])
      [] tv.variant = "Simple" -> J("obj", [x \in {"Simple"} |-> J("str", tv.text)])

ToJsonOptTag(o) == IF IsSome(o) THEN ToJsonTagValue(Unwrap(o)) ELSE J("null", 0)
ToJsonOptStr(o) == IF IsSome(o) THEN J("str", Unwrap(o)) ELSE J("null", 0)

\* variant: the field is left out of what is written (serde skip_serializing)
ToJsonOptTime_skipped(o) == J("null", 0)

ToJsonOptTime(o) == IF IsSome(o) THEN J("str", to_rfc3339(Unwrap(o))) ELSE J("null", 0)

ToJsonTags(tags) == J("obj", [n \in DOMAIN tags |-> ToJsonOptTag(tags[n])])

ToJsonFileData(fd) ==
    J("obj", [tags |-> ToJsonTags(fd.tags),
          comment |-> ToJsonOptStr(fd.comment),
          created |-> J("str", to_rfc3339(fd.created)),
          updated |-> ToJsonOptTime(fd.updated)])

ToJsonDb(db) ==
    J("obj", [files |-> J("obj", [key \in DOMAIN db.files |-> ToJsonFileData(db.files[key])]),
          collections |-> J("obj", [n \in DOMAIN db.collections |->
                                   J("arr", SortedKeys(db.collections[n]))]),
          tags |-> ToJsonTags(db.tags),
          comment |-> ToJsonOptStr(db.comment),
          created |-> J("str", to_rfc3339(db.created)),
          updated |-> ToJsonOptTime(db.updated)])

FromJsonTagValue(j) ==
    LET variant == CHOOSE x \in DOMAIN j.v : TRUE
        payload == j.v[variant].v
    IN  CASE variant = "Number" -> Number(payload)
          [] variant = "Bool" -> Bool(payload)
          [] variant = "Url" -> Url(payload)
          [] variant = "Simple" -> Simple(payload)

FromJsonOptTag(j) == IF j.k = "null" THEN None ELSE Some(FromJsonTagValue(j))
FromJsonOptStr(j) == IF j.k = "null" THEN None ELSE Some(j.v)
FromJsonOptTime(j) == IF j.k = "null" THEN None ELSE Some(parse_rfc3339(j.v))

FromJsonTags(j) == [n \in DOMAIN j.v |-> FromJsonOptTag(j.v[n])]

FromJsonFileData(j) ==
    [tags |-> FromJsonTags(j.v.tags),
     comment |-> FromJsonOptStr(j.v.comment),
     created |-> parse_rfc3339(j.v.created.v),
     updated |-> FromJsonOptTime(j.v.updated)]

FromJsonDb(j) ==
    [files |-> [key \in DOMAIN j.v.files.v |-> FromJsonFileData(j.v.files.v[key])],
     collections |-> [n \in DOMAIN j.v.collections.v |->
                         LET arr == j.v.collections.v[n].v
                         IN  {arr[i] : i \in 1 .. Len(arr)}],
     tags |-> FromJsonTags(j.v.tags),
     comment |-> FromJsonOptStr(j.v.comment),
     created |-> parse_rfc3339(j.v.created.v),
     updated |-> FromJsonOptTime(j.v.updated)]

(* bincode: a flat stream.  A struct is its fields in declaration order    *)
(* with no names, a map or set is its length and then its entries in key   *)
(* order, an Option is a tag byte and then the value, an enum is the index *)
(* of its variant and then the payload.                                    *)

Tok(k, v) == [k |-> k, v |-> v]

VariantIndex(variant) ==
    CASE variant = "Number" -> 0
      [] variant = "Bool" -> 1
      [] variant = "Url" -> 2
      [] variant = "Simple" -> 3

BinTagValue(tv) ==
    <<Tok("u32", VariantIndex(tv.variant))>> \o
    (CASE tv.variant = "Number" -> <<Tok("i64", tv.num)>>
       [] tv.variant = "Bool" -> <<Tok("bool", tv.flag)>>
       [] tv.variant = "Url" -> <<Tok("str", tv.text)>>
       [] tv.variant = "Simple" -> <<Tok("str", tv.text)>>)

BinOptTag(o) ==
    IF IsSome(o) THEN <<Tok("u8", 1)>> \o BinTagValue(Unwrap(o)) ELSE <<Tok("u8", 0)>>
BinOptStr(o) ==
    IF IsSome(o) THEN <<Tok("u8", 1), Tok("str", Unwrap(o))>> ELSE <<Tok("u8", 0)>>
BinOptTime(o) ==
    IF IsSome(o) THEN <<Tok("u8", 1), Tok("str", to_rfc3339(Unwrap(o)))>>
    ELSE <<Tok("u8", 0)>>

RECURSIVE BinTagEntries(_, _)
BinTagEntries(tags, names) ==
    IF Len(names) = 0 THEN <<>>
    ELSE <<Tok("str", names[1])>> \o BinOptTag(tags[names[1]]) \o
         BinTagEntries(tags, Tail(names))

BinTags(tags) ==
    <<Tok("u64", Cardinality(DOMAIN tags))>> \o
    BinTagEntries(tags, SortedNames(DOMAIN tags))

BinFileData(fd) ==
    BinTags(fd.tags) \o BinOptStr(fd.comment) \o
    <<Tok("str", to_rfc3339(fd.created))>> \o BinOptTime(fd.updated)

RECURSIVE BinFileEntries(_, _)
BinFileEntries(files, keys) ==
    IF Len(keys) = 0 THEN <<>>
    ELSE <<Tok("str", keys[1])>> \o BinFileData(files[keys[1]]) \o
         BinFileEntries(files, Tail(keys))

BinKeySet(S) ==
    LET keys == SortedKeys(S)
    IN  <<Tok("u64", Len(keys))>> \o [i \in 1 .. Len(keys) |-> Tok("str", keys[i])]

RECURSIVE BinCollEntries(_, _)
BinCollEntries(colls, names) ==
    IF Len(names) = 0 THEN <<>>
    ELSE <<Tok("str", names[1])>> \o BinKeySet(colls[names[1]]) \o
         BinCollEntries(colls, Tail(names))

BinDb(db) ==
    <<Tok("u64", Cardinality(DOMAIN db.files))>> \o
    BinFileEntries(db.files, SortedKeys(DOMAIN db.files)) \o
    <<Tok("u64", Cardinality(DOMAIN db.collections))>> \o
    BinCollEntries(db.collections, SortedNames(DOMAIN db.collections)) \o
    BinTags(db.tags) \o BinOptStr(db.comment) \o
    <<Tok("str", to_rfc3339(db.created))>> \o BinOptTime(db.updated)

(* The readers take the stream b and a position p and return the value     *)
(* read and the position after it.                                         *)

Read(v, p) == [v |-> v, p |-> p]

UnBinTagValue(b, p) ==
    With(b[p + 1].v, LAMBDA payload :
        Read(CASE b[p].v = 0 -> Number(payload)
               [] b[p].v = 1 -> Bool(payload)
               [] b[p].v = 2 -> Url(payload)
               [] b[p].v = 3 -> Simple(payload),
             p + 2))

UnBinOptTag(b, p) ==
    IF b[p].v = 0 THEN Read(None, p + 1)
    ELSE With(UnBinTagValue(b, p + 1), LAMBDA tv : Read(Some(tv.v), tv.p))

UnBinOptStr(b, p) ==
    IF b[p].v = 0 THEN Read(None, p + 1) ELSE Read(Some(b[p + 1].v), p + 2)

UnBinOptTime(b, p) ==
    IF b[p].v = 0 THEN Read(None, p + 1)
    ELSE Read(Some(parse_rfc3339(b[p + 1].v)), p + 2)

RECURSIVE UnBinTagEntries(_, _, _, _)
UnBinTagEntries(b, p, n, acc) ==
    IF n = 0 THEN Read(acc, p)
    ELSE With(UnBinOptTag(b, p + 1), LAMBDA value :
             UnBinTagEntries(b, value.p, n - 1, Insert(acc, b[p].v, value.v)))

UnBinTags(b, p) == UnBinTagEntries(b, p + 1, b[p].v, EmptyMap)

UnBinFileData(b, p) ==
    With(UnBinTags(b, p), LAMBDA tags :
    With(UnBinOptStr(b, tags.p), LAMBDA comment :
    With(UnBinOptTime(b, comment.p + 1), LAMBDA updated :
        Read([tags |-> tags.v, comment |-> comment.v,
              created |-> parse_rfc3339(b[comment.p].v), updated |-> updated.v],
             updated.p))))

RECURSIVE UnBinFileEntries(_, _, _, _)
UnBinFileEntries(b, p, n, acc) ==
    IF n = 0 THEN Read(acc, p)
    ELSE With(UnBinFileData(b, p + 1), LAMBDA data :
             UnBinFileEntries(b, data.p, n - 1, Insert(acc, b[p].v, data.v)))

UnBinKeySet(b, p) ==
    Read({b[i].v : i \in (p + 1) .. (p + b[p].v)}, p + 1 + b[p].v)

RECURSIVE UnBinCollEntries(_, _, _, _)
UnBinCollEntries(b, p, n, acc) ==
    IF n = 0 THEN Read(acc, p)
    ELSE With(UnBinKeySet(b, p + 1), LAMBDA keys :
             UnBinCollEntries(b, keys.p, n - 1, Insert(acc, b[p].v, keys.v)))

UnBinDb(b) ==
    With(UnBinFileEntries(b, 2, b[1].v, EmptyMap), LAMBDA files :
    With(UnBinCollEntries(b, files.p + 1, b[files.p].v, EmptyMap), LAMBDA colls :
    With(UnBinTags(b, colls.p), LAMBDA tags :
    With(UnBinOptStr(b, tags.p), LAMBDA comment :
    With(UnBinOptTime(b, comment.p + 1), LAMBDA updated :
        [files |-> files.v, collections |-> colls.v, tags |-> tags.v,
         comment |-> comment.v, created |-> parse_rfc3339(b[comment.p].v),
         updated |-> updated.v])))))

(* db.rs: the match on the format in write_file and in read_file.  The     *)
(* contents of a file are a sequence; a JSON text is one element of it.    *)

Serialize(format, db) ==
    IF format = "Binary"
    THEN BinDb(db)
    ELSE <<Tok("json", [pretty |-> (format = "JsonPretty"), root |-> ToJsonDb(db)])>>

\* an empty file, or a file of the other family, does not deserialize
Deserialize(format, data) ==
    IF Len(data) = 0
    THEN [ok |-> FALSE, db |-> Db_default(0)]
    ELSE IF format \in {"JsonPretty", "Json"}
    THEN IF data[1].k = "json"
         THEN [ok |-> TRUE, db |-> FromJsonDb(data[1].v.root)]
         ELSE [ok |-> FALSE, db |-> Db_default(0)]
    ELSE IF data[1].k = "json"
         THEN [ok |-> FALSE, db |-> Db_default(0)]
         ELSE [ok |-> TRUE, db |-> UnBinDb(data)]

----------------------------------------------------------------------------
(* path.rs.  A path is whether it is absolute and its components; the      *)
(* working directory and the store root are absolute, given by their       *)
(* components.  The component NonUtf8 stands for a name that is not UTF-8. *)

NonUtf8 == "xFF"

RelPath(comps) == [abs |-> FALSE, comps |-> comps]
AbsPath(comps) == [abs |-> TRUE, comps |-> comps]

\* path_absolutize: lexical, drops "." and resolves ".." against what precedes
RECURSIVE absolutize_onto(_, _)
absolutize_onto(base, comps) ==
    IF Len(comps) = 0 THEN base
    ELSE IF comps[1] = "." THEN absolutize_onto(base, Tail(comps))
    ELSE IF comps[1] = ".."
    THEN absolutize_onto(IF Len(base) = 0 THEN base ELSE SubSeq(base, 1, Len(base) - 1),
                         Tail(comps))
    ELSE absolutize_onto(Append(base, comps[1]), Tail(comps))

absolutize_from(given, cwd) == absolutize_onto(cwd, given.comps)

\* path::get_cwd: the working directory of the process, captured at startup
get_cwd(cwd) == DirPath(cwd)

\* Components::as_path: the rest of the path as it is written, without the
\* "." it starts or ends with
RECURSIVE as_path(_)
as_path(comps) ==
    IF Len(comps) = 0 THEN comps
    ELSE IF comps[1] = "." THEN as_path(Tail(comps))
    ELSE IF comps[Len(comps)] = "." THEN as_path(SubSeq(comps, 1, Len(comps) - 1))
    ELSE comps

\* variant: the components of the base are cut off without being compared
RECURSIVE strip_prefix_unchecked(_, _)
strip_prefix_unchecked(path, base) ==
    IF Len(base) = 0 THEN Some(as_path(path))
    ELSE IF Len(path) = 0 THEN None
    ELSE IF path[1] = "." THEN strip_prefix_unchecked(Tail(path), base)
    ELSE strip_prefix_unchecked(Tail(path), Tail(base))

\* Path::strip_prefix on absolute paths: the components of the path, which
\* skip every ".", are matched against those of the base one by one ("..",
\* a component like any other, is not resolved); what is left is returned
\* as it is written
RECURSIVE strip_prefix(_, _)
strip_prefix(path, base) ==
    IF Len(base) = 0 THEN Some(as_path(path))
    ELSE IF Len(path) = 0 THEN None
    ELSE IF path[1] = "." THEN strip_prefix(Tail(path), base)
    ELSE IF path[1] = base[1] THEN strip_prefix(Tail(path), Tail(base))
    ELSE None

\* RelativePath::from_root; cwd is the level of the working directory.  A
\* path given absolute is taken as it is written.
from_root(root, given, cwd) ==
    With(IF ~given.abs THEN absolutize_from(given, get_cwd(cwd)) ELSE given.comps,
         LAMBDA rtn :
        With(strip_prefix(rtn, root), LAMBDA from_root_ :
            IF ~IsSome(from_root_)
            THEN [ok |-> FALSE, err |-> "InvalidPrefix", full |-> rtn, db_entry |-> <<>>]
            ELSE IF \E i \in 1 .. Len(Unwrap(from_root_)) : Unwrap(from_root_)[i] = NonUtf8
            THEN [ok |-> FALSE, err |-> "InvalidChars", full |-> rtn, db_entry |-> <<>>]
            ELSE [ok |-> TRUE, err |-> "", full |-> rtn,
                  db_entry |-> Unwrap(from_root_)]))

----------------------------------------------------------------------------
(* db.rs: Context.  The path of a db file is the level of the directory    *)
(* that holds its .fsm directory, and the format that names the file.      *)

DbPath(level, format) == [level |-> level, format |-> format]

\* Context::get_root: two levels above the db file
get_root(path) == DirPath(path.level)

NoContext ==
    [format |-> "Json", db |-> Db_default(0), path |-> DbPath(0, "Json"), root |-> <<>>]

\* Context::read_file
read_file(tree, path, format) ==
    IF tree[path.level].fsm # "dir" \/ tree[path.level].db[path.format].kind # "file"
    THEN [ok |-> FALSE, err |-> "failed reading db", ctx |-> NoContext]
    ELSE With(Deserialize(format, tree[path.level].db[path.format].data), LAMBDA parsed :
             IF ~parsed.ok
             THEN [ok |-> FALSE, err |-> "failed deserializing db", ctx |-> NoContext]
             ELSE [ok |-> TRUE, err |-> "",
                   ctx |-> [format |-> format, db |-> parsed.db, path |-> path,
                            root |-> get_root(path)]])

\* variant: without a store, go on with an empty one in the working directory
cwd_load_default(tree, cwd) ==
    With(find_file(tree, cwd), LAMBDA found :
        IF ~IsSome(found)
        THEN [ok |-> TRUE, err |-> "",
              ctx |-> [format |-> "Json", db |-> Db_default(0),
                       path |-> DbPath(cwd, "Json"), root |-> get_root(DbPath(cwd, "Json"))]]
        ELSE read_file(tree, Unwrap(found), Unwrap(found).format))

\* Context::cwd_load
cwd_load(tree, cwd) ==
    With(find_file(tree, cwd), LAMBDA found :
        IF ~IsSome(found)
        THEN [ok |-> FALSE, err |-> "no db found", ctx |-> NoContext]
        ELSE read_file(tree, Unwrap(found), Unwrap(found).format))

SetDbEntry(tree, path, entry) ==
    [tree EXCEPT ![path.level].db[path.format] = entry]

\* variant: OpenOptions without truncate(true)
open_no_truncate(tree, path, create) ==
    IF tree[path.level].fsm # "dir" \/ tree[path.level].db[path.format].kind = "dir"
    THEN [ok |-> FALSE, fs |-> tree]
    ELSE IF tree[path.level].db[path.format].kind = "none"
    THEN IF create
         THEN [ok |-> TRUE, fs |-> SetDbEntry(tree, path, FileEntry(<<>>))]
         ELSE [ok |-> FALSE, fs |-> tree]
    ELSE [ok |-> TRUE, fs |-> tree]

\* variant: save opens with create(true)
open_truncate_create(tree, path, create) ==
    IF tree[path.level].fsm # "dir" \/ tree[path.level].db[path.format].kind = "dir"
    THEN [ok |-> FALSE, fs |-> tree]
    ELSE [ok |-> TRUE, fs |-> SetDbEntry(tree, path, FileEntry(<<>>))]

\* write_file, first half: OpenOptions write + truncate (+ create) .open()
open_truncate(tree, path, create) ==
    IF tree[path.level].fsm # "dir" \/ tree[path.level].db[path.format].kind = "dir"
    THEN [ok |-> FALSE, fs |-> tree]
    ELSE IF tree[path.level].db[path.format].kind = "none" /\ ~create
    THEN [ok |-> FALSE, fs |-> tree]
    ELSE [ok |-> TRUE, fs |-> SetDbEntry(tree, path, FileEntry(<<>>))]

\* write(2) through a descriptor at offset 0: what lies beyond the written
\* bytes stays
overwrite(data, written) ==
    written \o SubSeq(data, Len(written) + 1, Len(data))

\* write_file, second half: the serializer writes through the open file
write_serialized(tree, context) ==
    IF tree[context.path.level].db[context.path.format].kind = "file"
    THEN SetDbEntry(tree, context.path,
                    FileEntry(overwrite(tree[context.path.level].db[context.path.format].data,
                                        Serialize(context.format, context.db))))
    ELSE tree

\* Context::write_file
write_file(tree, context, create) ==
    With(open_truncate(tree, context.path, create), LAMBDA opened :
        IF ~opened.ok
        THEN [ok |-> FALSE, err |-> "failed to open db file", fs |-> tree]
        ELSE [ok |-> TRUE, err |-> "", fs |-> write_serialized(opened.fs, context)])

\* Context::save
save(tree, context) == write_file(tree, context, FALSE)

\* Context::create at time t
create(tree, path, format, t) ==
    write_file(tree,
               [format |-> format, db |-> Db_default(t), path |-> path,
                root |-> get_root(path)],
               TRUE)

----------------------------------------------------------------------------
(* What a command leaves behind: its Result, the error it returned, the    *)
(* lines it printed, the file system, and the Context it held in memory    *)
(* when it ended (NoContext when it loaded none).                          *)

Outcome(ok, err, msgs, tree, mem) ==
    [ok |-> ok, err |-> err, msgs |-> msgs, fs |-> tree, mem |-> mem]

Printed(out, line) == \E i \in 1 .. Len(out.msgs) : out.msgs[i] = line

----------------------------------------------------------------------------
(* set.rs *)

\* BTreeMap::extend with a list of (name, value) pairs
RECURSIVE extend(_, _)
extend(tags, list) ==
    IF Len(list) = 0 THEN tags
    ELSE extend(Insert(tags, list[1][1], list[1][2]), Tail(list))

RECURSIVE remove_all(_, _)
remove_all(tags, names) ==
    IF Len(names) = 0 THEN tags
    ELSE remove_all(Remove(tags, names[1]), Tail(names))

has_tags(args) ==
    \/ Len(args.tag) # 0
    \/ Len(args.tag_url) # 0
    \/ Len(args.tag_num) # 0
    \/ Len(args.tag_bool) # 0

\* variant: --replace clears the tags also when nothing is added or dropped
update_tags_replace_first(args, tags) ==
    IF args.drop_all
    THEN EmptyMap
    ELSE IF args.replace
    THEN extend(extend(extend(extend(EmptyMap, args.tag), args.tag_url),
                       args.tag_num), args.tag_bool)
    ELSE IF has_tags(args) \/ Len(args.drop) # 0
    THEN extend(extend(extend(extend(remove_all(tags, args.drop), args.tag),
                              args.tag_url), args.tag_num), args.tag_bool)
    ELSE tags

update_tags(args, tags) ==
    IF args.drop_all
    THEN EmptyMap
    ELSE IF has_tags(args) \/ Len(args.drop) # 0
    THEN LET cleared == IF args.replace THEN EmptyMap ELSE remove_all(tags, args.drop)
         IN  extend(extend(extend(extend(cleared, args.tag), args.tag_url),
                           args.tag_num), args.tag_bool)
    ELSE tags

\* the comment branch shared by the store and the file entries
update_comment(args, comment) ==
    IF args.drop_comment THEN None
    ELSE IF IsSome(args.comment) THEN args.comment
    ELSE comment

\* variant: a new entry is stamped as updated as well
set_entry_updated_at_once(db, args, db_entry, t) ==
    [db EXCEPT !.files = Insert(@, db_entry,
        [tags |-> update_tags(args, IF ContainsKey(db.files, db_entry)
                                    THEN db.files[db_entry].tags ELSE EmptyMap),
         comment |-> update_comment(args, IF ContainsKey(db.files, db_entry)
                                          THEN db.files[db_entry].comment ELSE None),
         created |-> IF ContainsKey(db.files, db_entry)
                     THEN db.files[db_entry].created ELSE t,
         updated |-> Some(t)])]

\* set_data, the body of the loop for a path that resolved to db_entry
set_entry(db, args, db_entry, t) ==
    IF ContainsKey(db.files, db_entry)
    THEN [db EXCEPT !.files[db_entry] =
             [tags |-> update_tags(args, @.tags),
              comment |-> update_comment(args, @.comment),
              created |-> @.created,
              updated |-> Some(t)]]
    ELSE [db EXCEPT !.files = Insert(@, db_entry,
             [tags |-> update_tags(args, FileData_default(t).tags),
              comment |-> update_comment(args, FileData_default(t).comment),
              created |-> FileData_default(t).created,
              updated |-> FileData_default(t).updated])]

\* variant: the result is taken without looking at it
log_result_unwrap(value) == Some(value)

\* logging::log_result: an error is printed and the value dropped
log_result(value) == IF value.ok THEN Some(value) ELSE None

\* set_data, the loop over context.rel_to_db_list(&args.files)
RECURSIVE set_files(_, _, _, _, _, _)
set_files(context, args, files, cwd, t, msgs) ==
    IF Len(files) = 0
    THEN [ctx |-> context, msgs |-> msgs]
    ELSE With(from_root(context.root, files[1], cwd), LAMBDA path_result :
             IF ~IsSome(log_result(path_result))
             THEN set_files(context, args, Tail(files), cwd, t,
                            Append(msgs, path_result.err))
             ELSE set_files([context EXCEPT !.db =
                                 set_entry(@, args, Unwrap(log_result(path_result)).db_entry, t)],
                            args, Tail(files), cwd, t, msgs))

\* set_data between the load and the save
set_in_memory(context, args, cwd, t) ==
    set_files(IF args.self_
              THEN [context EXCEPT !.db.tags = update_tags(args, @),
                                   !.db.comment = update_comment(args, @)]
              ELSE context,
              args, args.files, cwd, t, <<>>)

set_data(tree, cwd, args, t) ==
    With(cwd_load(tree, cwd), LAMBDA loaded :
        IF ~loaded.ok
        THEN Outcome(FALSE, loaded.err, <<>>, tree, NoContext)
        ELSE With(set_in_memory(loaded.ctx, args, cwd, t), LAMBDA changed :
             With(save(tree, changed.ctx), LAMBDA saved :
                 Outcome(saved.ok, saved.err, changed.msgs, saved.fs, changed.ctx))))

----------------------------------------------------------------------------
(* get.rs.  What get prints is a sequence of lines: an error of a path     *)
(* that did not resolve, a "not found", the block print_data prints for a  *)
(* selected container, or the closing total.  --no-tags and --no-comment   *)
(* are not given.                                                          *)

Line(kind, text, entry, meta, title, total) ==
    [kind |-> kind, text |-> text, entry |-> entry, meta |-> meta, title |-> title,
     total |-> total]


\* the MetaContainer view of a FileData or of the Db
Meta(container) ==
    [tags |-> container.tags, comment |-> container.comment,
     created |-> container.created, updated |-> container.updated]

\* MetaContainer::modified
modified(meta) == IF IsSome(meta.updated) THEN Unwrap(meta.updated) ELSE meta.created

\* FilterKey: both variants display as "@ name"
Borrowed(name) == [owned |-> FALSE, name |-> name]
Owned(name) == [owned |-> TRUE, name |-> name]

print_data(entry, container, print_title) ==
    Line("data", "", entry.name, Some(container), print_title, 0)

\* variant: a tag counts only when it carries a value
check_filter_valued(meta, args) ==
    /\ \A i \in 1 .. Len(args.includes_tags) :
           /\ ContainsKey(meta.tags, args.includes_tags[i])
           /\ IsSome(meta.tags[args.includes_tags[i]])
    /\ \A i \in 1 .. Len(args.excludes_tags) :
           ~(/\ ContainsKey(meta.tags, args.excludes_tags[i])
             /\ IsSome(meta.tags[args.excludes_tags[i]]))

\* check_filter: every include is a key of the tags, no exclude is
check_filter(meta, args) ==
    /\ \A i \in 1 .. Len(args.includes_tags) :
           ContainsKey(meta.tags, args.includes_tags[i])
    /\ \A i \in 1 .. Len(args.excludes_tags) :
           ~ContainsKey(meta.tags, args.excludes_tags[i])

\* the derived Ord of FilterKey: the variant first, then the text
cmp_key(a, b) ==
    IF a.owned # b.owned THEN (IF b.owned THEN "Less" ELSE "Greater")
    ELSE IF a.name = b.name THEN "Equal"
    ELSE IF KeyLess(a.name, b.name) THEN "Less" ELSE "Greater"

cmp_time(a, b) == IF a = b THEN "Equal" ELSE IF a < b THEN "Less" ELSE "Greater"

\* variant: the order of Option, where None sorts before every Some
cmp_updated_option(other, meta) ==
    IF IsSome(other.updated) /\ IsSome(meta.updated)
    THEN cmp_time(Unwrap(other.updated), Unwrap(meta.updated))
    ELSE IF IsSome(other.updated) THEN "Greater"
    ELSE IF IsSome(meta.updated) THEN "Less"
    ELSE "Equal"

\* SortBy::Updated: an entry never updated sorts after every updated one
cmp_updated(other, meta) ==
    IF IsSome(other.updated) /\ IsSome(meta.updated)
    THEN cmp_time(Unwrap(other.updated), Unwrap(meta.updated))
    ELSE IF IsSome(other.updated) THEN "Less"
    ELSE IF IsSome(meta.updated) THEN "Greater"
    ELSE "Equal"

cmp_by(by, other, key, meta) ==
    CASE by = "Name" -> cmp_key(other.key, key)
      [] by = "Date" -> cmp_time(modified(other.meta), modified(meta))
      [] by = "Created" -> cmp_time(other.meta.created, meta.created)
      [] by = "Updated" -> cmp_updated(other.meta, meta)

\* variant: only the first criterion is looked at
compare_first_only(other, key, meta, sort_by, i) ==
    IF i > Len(sort_by) THEN "Equal" ELSE cmp_by(sort_by[1], other, key, meta)

\* the closure given to binary_search_by: the first criterion that decides
RECURSIVE compare(_, _, _, _, _)
compare(other, key, meta, sort_by, i) ==
    IF i > Len(sort_by) THEN "Equal"
    ELSE With(cmp_by(sort_by[i], other, key, meta), LAMBDA order :
             IF order = "Equal" THEN compare(other, key, meta, sort_by, i + 1)
             ELSE order)

\* slice::binary_search_by on a list the closure finds sorted: the places
\* where the item may go.  With items that compare Equal the search may
\* return any one of them (which one is left open by the library); with
\* none, the place that keeps the order.
binary_search_by(filtered_items, key, meta, sort_by) ==
    With({j \in 1 .. Len(filtered_items) :
             compare(filtered_items[j], key, meta, sort_by, 1) = "Equal"},
         LAMBDA matches :
             IF matches # {} THEN matches
             ELSE {index \in 1 .. Len(filtered_items) + 1 :
                      /\ \A j \in 1 .. index - 1 :
                             compare(filtered_items[j], key, meta, sort_by, 1) = "Less"
                      /\ \/ index = Len(filtered_items) + 1
                         \/ compare(filtered_items[index], key, meta, sort_by, 1) # "Less"})

\* Vec::insert: the element goes to the index, what was there moves up
insert(list, index, element) ==
    SubSeq(list, 1, index - 1) \o <<element>> \o SubSeq(list, index, Len(list))

\* sorted_insert as get_data uses it.  There the items that compare Equal
\* are one path given twice, the same key with the same data, so that every
\* index of the search gives the same list; the first one is taken.
sorted_insert(key, meta, filtered_items, sort_by) ==
    With(CHOOSE index \in binary_search_by(filtered_items, key, meta, sort_by) :
             \A other \in binary_search_by(filtered_items, key, meta, sort_by) :
                 index <= other,
         LAMBDA index : insert(filtered_items, index, [key |-> key, meta |-> meta]))

\* get_path_data: the entry of a path, or the line printed instead
get_path_data(path_result, db) ==
    IF ~IsSome(log_result(path_result))
    THEN [found |-> None, line |-> Line("error", path_result.err, <<>>, None, FALSE, 0)]
    ELSE IF ~ContainsKey(db.files, Unwrap(log_result(path_result)).db_entry)
    THEN [found |-> None,
          line |-> Line("not found", "", Unwrap(log_result(path_result)).db_entry,
                       None, FALSE, 0)]
    ELSE [found |-> Some(Unwrap(log_result(path_result)).db_entry),
          line |-> Line("", "", <<>>, None, FALSE, 0)]

\* get_data, the loop over context.rel_to_db_list(&args.files)
RECURSIVE get_files(_, _, _, _, _, _)
get_files(context, args, files, cwd, filtered_items, msgs) ==
    IF Len(files) = 0
    THEN [items |-> filtered_items, msgs |-> msgs]
    ELSE With(get_path_data(from_root(context.root, files[1], cwd), context.db),
              LAMBDA got :
             IF ~IsSome(got.found)
             THEN get_files(context, args, Tail(files), cwd, filtered_items,
                            Append(msgs, got.line))
             ELSE IF ~check_filter(Meta(context.db.files[Unwrap(got.found)]), args)
             THEN get_files(context, args, Tail(files), cwd, filtered_items, msgs)
             ELSE get_files(context, args, Tail(files), cwd,
                            sorted_insert(Owned(Unwrap(got.found)),
                                          Meta(context.db.files[Unwrap(got.found)]),
                                          filtered_items, args.sort_by),
                            msgs))

\* get_data, the loop over &context.db.files
RECURSIVE get_all(_, _, _, _)
get_all(context, args, keys, filtered_items) ==
    IF Len(keys) = 0
    THEN [items |-> filtered_items, msgs |-> <<>>]
    ELSE IF ~check_filter(Meta(context.db.files[keys[1]]), args)
    THEN get_all(context, args, Tail(keys), filtered_items)
    ELSE get_all(context, args, Tail(keys),
                 sorted_insert(Borrowed(keys[1]), Meta(context.db.files[keys[1]]),
                               filtered_items, args.sort_by))

\* variant: the store's own entry is put after the file entries
get_selected_store_last(context, args, cwd) ==
    With(IF args.all
         THEN get_all(context, args, SortedKeys(DOMAIN context.db.files), <<>>)
         ELSE get_files(context, args, args.files, cwd, <<>>, <<>>),
         LAMBDA selected :
             [items |-> selected.items
                            \o (IF (args.self_ \/ args.all) /\ check_filter(Meta(context.db), args)
                                THEN <<[key |-> Borrowed(<<"!SELF">>),
                                        meta |-> Meta(context.db)]>>
                                ELSE <<>>),
              msgs |-> selected.msgs])

\* get_data up to the printing
get_selected(context, args, cwd) ==
    With(IF (args.self_ \/ args.all) /\ check_filter(Meta(context.db), args)
         THEN <<[key |-> Borrowed(<<"!SELF">>), meta |-> Meta(context.db)]>>
         ELSE <<>>,
         LAMBDA filtered_items :
             IF args.all
             THEN get_all(context, args, SortedKeys(DOMAIN context.db.files),
                          filtered_items)
             ELSE get_files(context, args, args.files, cwd, filtered_items, <<>>))

get_printed(selected) ==
    selected.msgs
        \o [i \in 1 .. Len(selected.items) |->
               print_data(selected.items[i].key, selected.items[i].meta,
                          Len(selected.items) > 1)]
        \o <<Line("total", "", <<>>, None, FALSE, Len(selected.items))>>

get_data(tree, cwd, args) ==
    With(cwd_load(tree, cwd), LAMBDA loaded :
        IF ~loaded.ok
        THEN Outcome(FALSE, loaded.err, <<>>, tree, NoContext)
        ELSE Outcome(TRUE, "", get_printed(get_selected(loaded.ctx, args, cwd)),
                     tree, loaded.ctx))

----------------------------------------------------------------------------
(* rename.rs.  on_disk is what fs::check_exists finds for the new path. *)

\* variant: the members of the collections are renamed along with the entry
rename_entry_with_members(tree, context, args, current, rename, on_disk) ==
    IF ~ContainsKey(context.db.files, current)
    THEN Outcome(TRUE, "", <<"current not found in db">>, tree, context)
    ELSE With([context EXCEPT !.db.files = Remove(@, current)], LAMBDA removed :
         IF args.exists /\ ~on_disk
         THEN Outcome(TRUE, "", <<"the renamed path does not exist">>, tree, removed)
         ELSE IF ContainsKey(removed.db.files, rename)
         THEN With(save(tree, removed), LAMBDA saved :
                  Outcome(saved.ok, saved.err, <<"renamed already exists in db">>,
                          saved.fs, removed))
         ELSE With([removed EXCEPT
                        !.db.files = Insert(@, rename, context.db.files[current]),
                        !.db.collections =
                            [n \in DOMAIN @ |->
                                {IF key = current THEN rename ELSE key : key \in @[n]}]],
                   LAMBDA inserted :
              With(save(tree, inserted), LAMBDA saved :
                  Outcome(saved.ok, saved.err, <<>>, saved.fs, inserted))))

\* rename_data from db.inner.files.remove(current) on
rename_entry(tree, context, args, current, rename, on_disk) ==
    IF ~ContainsKey(context.db.files, current)
    THEN Outcome(TRUE, "", <<"current not found in db">>, tree, context)
    ELSE With([context EXCEPT !.db.files = Remove(@, current)], LAMBDA removed :
         IF args.exists /\ ~on_disk
         THEN Outcome(TRUE, "", <<"the renamed path does not exist">>, tree, removed)
         ELSE IF ContainsKey(removed.db.files, rename)
         THEN With(save(tree, removed), LAMBDA saved :
                  Outcome(saved.ok, saved.err, <<"renamed already exists in db">>,
                          saved.fs, removed))
         ELSE With([removed EXCEPT !.db.files =
                        Insert(@, rename, context.db.files[current])], LAMBDA inserted :
              With(save(tree, inserted), LAMBDA saved :
                  Outcome(saved.ok, saved.err, <<>>, saved.fs, inserted))))

rename_data(tree, cwd, args, on_disk) ==
    With(cwd_load(tree, cwd), LAMBDA loaded :
        IF ~loaded.ok THEN Outcome(FALSE, loaded.err, <<>>, tree, NoContext)
        ELSE With(from_root(loaded.ctx.root, args.current, cwd), LAMBDA current :
             With(from_root(loaded.ctx.root, args.renamed, cwd), LAMBDA rename :
                 IF ~current.ok THEN Outcome(FALSE, current.err, <<>>, tree, loaded.ctx)
                 ELSE IF ~rename.ok THEN Outcome(FALSE, rename.err, <<>>, tree, loaded.ctx)
                 ELSE rename_entry(tree, loaded.ctx, args, current.db_entry,
                                   rename.db_entry, on_disk))))

----------------------------------------------------------------------------
(* db/init.rs *)

\* variant: init without the check for an existing db file
check_existing_free(tree, cwd, i) == "free"

\* variant: only the file of the first format is looked for
check_existing_first_only(tree, cwd, i) ==
    IF ~IsSome(get_metadata_db(tree, cwd, FORMAT_LIST[1])) THEN "free"
    ELSE IF Unwrap(get_metadata_db(tree, cwd, FORMAT_LIST[1])) = "file" THEN "exists"
    ELSE "not a file"

\* the loop over FORMAT_LIST: "free", "exists" or "not a file"
RECURSIVE check_existing(_, _, _)
check_existing(tree, cwd, i) ==
    IF i > Len(FORMAT_LIST) THEN "free"
    ELSE IF ~IsSome(get_metadata_db(tree, cwd, FORMAT_LIST[i]))
    THEN check_existing(tree, cwd, i + 1)
    ELSE IF Unwrap(get_metadata_db(tree, cwd, FORMAT_LIST[i])) = "file" THEN "exists"
    ELSE "not a file"

\* init_db from "creating db file" on
create_db(tree, cwd, format, t) ==
    With(create(tree, DbPath(cwd, format), format, t), LAMBDA created :
        IF ~created.ok
        THEN Outcome(FALSE, "failed to save new db instance", <<>>, created.fs, NoContext)
        ELSE Outcome(TRUE, "", <<>>, created.fs,
                     [format |-> format, db |-> Db_default(t),
                      path |-> DbPath(cwd, format), root |-> get_root(DbPath(cwd, format))]))

init_db(tree, cwd, format, t) ==
    IF IsSome(get_metadata_fsm(tree, cwd))
    THEN IF Unwrap(get_metadata_fsm(tree, cwd)) # "dir"
         THEN Outcome(FALSE, ".fsm is not a directory", <<>>, tree, NoContext)
         ELSE With(check_existing(tree, cwd, 1), LAMBDA existing :
                  IF existing = "exists"
                  THEN Outcome(TRUE, "", <<"a db file already exists">>, tree, NoContext)
                  ELSE IF existing = "not a file"
                  THEN Outcome(FALSE,
                               "a file system item exists with the name of a db file",
                               <<>>, tree, NoContext)
                  ELSE create_db(tree, cwd, format, t))
    ELSE create_db([tree EXCEPT ![cwd].fsm = "dir"], cwd, format, t)

----------------------------------------------------------------------------
(* db/drop.rs *)

\* std::fs::remove_file
remove_file(tree, path) ==
    IF tree[path.level].fsm = "dir" /\ tree[path.level].db[path.format].kind = "file"
    THEN [ok |-> TRUE, fs |-> SetDbEntry(tree, path, NoEntry)]
    ELSE [ok |-> FALSE, fs |-> tree]

\* std::fs::remove_dir: the directory has to be empty
remove_dir(tree, level) ==
    IF tree[level].fsm = "dir" /\ \A f \in Formats : tree[level].db[f].kind = "none"
    THEN [ok |-> TRUE, fs |-> [tree EXCEPT ![level].fsm = "none"]]
    ELSE [ok |-> FALSE, fs |-> tree]

\* variant: only the db file is removed
drop_db_file_only(tree, cwd) ==
    With(cwd_load(tree, cwd), LAMBDA loaded :
        IF ~loaded.ok THEN Outcome(FALSE, loaded.err, <<>>, tree, NoContext)
        ELSE With(remove_file(tree, loaded.ctx.path), LAMBDA file_gone :
             IF ~file_gone.ok
             THEN Outcome(FALSE, "failed to remove db file", <<>>, tree, loaded.ctx)
             ELSE Outcome(TRUE, "", <<>>, file_gone.fs, loaded.ctx)))

drop_db(tree, cwd) ==
    With(cwd_load(tree, cwd), LAMBDA loaded :
        IF ~loaded.ok THEN Outcome(FALSE, loaded.err, <<>>, tree, NoContext)
        ELSE With(remove_file(tree, loaded.ctx.path), LAMBDA file_gone :
             IF ~file_gone.ok
             THEN Outcome(FALSE, "failed to remove db file", <<>>, tree, loaded.ctx)
             ELSE With(remove_dir(file_gone.fs, loaded.ctx.path.level), LAMBDA dir_gone :
                  IF ~dir_gone.ok
                  THEN Outcome(FALSE, "failed to remove .fsm directory", <<>>,
                               file_gone.fs, loaded.ctx)
                  ELSE Outcome(TRUE, "", <<>>, dir_gone.fs, loaded.ctx))))

----------------------------------------------------------------------------
(* Inputs of the commands *)

NoSetArgs ==
    [replace |-> FALSE, tag |-> <<>>, tag_url |-> <<>>, tag_num |-> <<>>,
     tag_bool |-> <<>>, drop |-> <<>>, drop_all |-> FALSE, comment |-> None,
     drop_comment |-> FALSE, self_ |-> FALSE, files |-> <<>>]

PathA == RelPath(<<"a">>)
PathB == RelPath(<<"b">>)
\* /x: outside every store root but the filesystem root
PathOutside == AbsPath(<<"x">>)
PathNonUtf8 == RelPath(<<NonUtf8>>)

\* what set is asked to change: a presence-only tag, or a comment and a number tag
SetChanges ==
    {[NoSetArgs EXCEPT !.tag = <<<<"t1", None>>>>],
     [NoSetArgs EXCEPT !.comment = Some("c"), !.tag_num = <<<<"t2", Some(Number(1))>>>>]}

\* clap: files are required unless --self is given
SetInputs ==
    {[c EXCEPT !.files = batch] : c \in SetChanges, batch \in {<<PathA>>, <<PathA, PathB>>}}
    \cup {[c EXCEPT !.self_ = TRUE] : c \in SetChanges}

NoGetArgs ==
    [self_ |-> FALSE, all |-> FALSE, sort_by |-> <<"Name">>, includes_tags |-> <<>>,
     excludes_tags |-> <<>>, files |-> <<>>]

\* what get is asked to select: every entry named, or those tagged t1
GetFilters == {NoGetArgs, [NoGetArgs EXCEPT !.includes_tags = <<"t1">>]}

\* get in the sequences of commands: one path, or everything
GetInputs == {[NoGetArgs EXCEPT !.files = <<PathA>>], [NoGetArgs EXCEPT !.all = TRUE]}

RenameInputs ==
    [exists : BOOLEAN, current : {PathA, PathB}, renamed : {PathA, PathB}]

----------------------------------------------------------------------------
(* Spec: whole commands, one after the other, on a disk that starts with   *)
(* no .fsm directory anywhere.  Each command is a process of its own, with *)
(* its own working directory, and reads the clock once.                    *)

EmptyTree == [l \in Levels |-> NoFsm]

NoLast == [cmd |-> "none"]

Finish(cmd, cwd, args, outcome) ==
    \E out \in {outcome} :
        /\ fs' = out.fs
        /\ last' = [cmd |-> cmd, cwd |-> cwd, args |-> args, before |-> fs, t |-> now,
                    ok |-> out.ok, err |-> out.err, msgs |-> out.msgs, mem |-> out.mem]
        /\ UNCHANGED <<pc, ctx, hist>>

Init ==
    /\ fs = EmptyTree
    /\ now = 0
    /\ last = NoLast
    /\ pc = <<>>
    /\ ctx = <<>>
    /\ hist = <<>>

InitCmd ==
    /\ now < MaxClock
    /\ now' = now + 1
    /\ \E cwd \in Levels, format \in Formats :
           Finish("init", cwd, format, init_db(fs, cwd, format, now))

DropCmd ==
    /\ now < MaxClock
    /\ now' = now + 1
    /\ \E cwd \in Levels : Finish("drop", cwd, <<>>, drop_db(fs, cwd))

SetCmd ==
    /\ now < MaxClock
    /\ now' = now + 1
    /\ \E cwd \in Levels, args \in SetInputs :
           Finish("set", cwd, args, set_data(fs, cwd, args, now))

RenameCmd ==
    /\ now < MaxClock
    /\ now' = now + 1
    /\ \E cwd \in Levels, args \in RenameInputs :
           \E on_disk \in (IF args.exists THEN BOOLEAN ELSE {TRUE}) :
               Finish("rename", cwd, args, rename_data(fs, cwd, args, on_disk))

GetCmd ==
    /\ now < MaxClock
    /\ now' = now + 1
    /\ \E cwd \in Levels, args \in GetInputs :
           Finish("get", cwd, args, get_data(fs, cwd, args))

Next == InitCmd \/ DropCmd \/ SetCmd \/ RenameCmd \/ GetCmd

Spec == Init /\ [][Next]_vars

----------------------------------------------------------------------------
(* SpecTree: one locator run, one init or one drop on a directory chain    *)
(* that the user may have arranged in any way: .fsm absent, a regular file *)
(* or a directory, and in it each db file name absent, a directory or a    *)
(* regular file that holds a store saved in that format.                   *)

StoredEntries(format) ==
    {NoEntry, DirEntry, FileEntry(Serialize(format, Db_default(0)))}

FsmStates ==
    {NoFsm, [fsm |-> "file", db |-> EmptyFsmDir]}
    \cup {[fsm |-> "dir", db |-> d] :
             d \in {e \in [Formats -> UNION {StoredEntries(f) : f \in Formats}] :
                       \A f \in Formats : e[f] \in StoredEntries(f)}}

Trees == [Levels -> FsmStates]

Once == last.cmd = "none"

InitTree ==
    /\ fs \in Trees
    /\ now = 1
    /\ last = NoLast
    /\ pc = <<>>
    /\ ctx = <<>>
    /\ hist = <<>>

\* Context::find_file run from the working directory
Locate ==
    /\ Once
    /\ \E cwd \in Levels :
           last' = [cmd |-> "locate", cwd |-> cwd, before |-> fs,
                    found |-> find_file(fs, cwd)]
    /\ UNCHANGED <<fs, now, pc, ctx, hist>>

TreeInitCmd == Once /\ InitCmd

TreeDropCmd == Once /\ DropCmd

NextTree == Locate \/ TreeInitCmd \/ TreeDropCmd

SpecTree == InitTree /\ [][NextTree]_vars

----------------------------------------------------------------------------
(* SpecBatch: one set or one get, given up to MaxBatch paths, some of      *)
(* which do not resolve, on a disk that an init, or an init and a set,     *)
(* left behind.                                                            *)

InitedTrees ==
    {init_db(EmptyTree, cwd, format, 0).fs : cwd \in Levels, format \in Formats}

SetTrees ==
    {set_data(tree, cwd, args, 1).fs :
        tree \in InitedTrees, cwd \in Levels, args \in SetInputs}

BatchPaths == {PathA, PathB, PathOutside, PathNonUtf8}

Batches == UNION {[1 .. n -> BatchPaths] : n \in 1 .. MaxBatch}

InitBatch ==
    /\ fs \in InitedTrees \cup SetTrees
    /\ now = 2
    /\ last = NoLast
    /\ pc = <<>>
    /\ ctx = <<>>
    /\ hist = <<>>

BatchSetCmd ==
    /\ Once
    /\ now' = now + 1
    /\ \E cwd \in Levels, change \in SetChanges, batch \in Batches :
           Finish("set", cwd, [change EXCEPT !.files = batch],
                  set_data(fs, cwd, [change EXCEPT !.files = batch], now))

BatchGetCmd ==
    /\ Once
    /\ now' = now + 1
    /\ \E cwd \in Levels, filter \in GetFilters, batch \in Batches :
           Finish("get", cwd, [filter EXCEPT !.files = batch],
                  get_data(fs, cwd, [filter EXCEPT !.files = batch]))

NextBatch == BatchSetCmd \/ BatchGetCmd

SpecBatch == InitBatch /\ [][NextBatch]_vars

----------------------------------------------------------------------------
(* SpecSave: one save of a store that the commands have changed in memory  *)
(* in any way, over the store file an init created: file entries with      *)
(* tags of every kind, comments and timestamps, collections, and the tags, *)
(* comment and timestamps of the store itself.                             *)

SampleTagValues ==
    {None, Some(Number(1)), Some(Bool(TRUE)), Some(Url("u")), Some(Simple("s"))}

SampleTags ==
    {EmptyMap}
    \cup {[n \in {"t1"} |-> v] : v \in SampleTagValues}
    \cup {[n \in {"t1", "t2"} |-> IF n = "t1" THEN None ELSE v] : v \in SampleTagValues}

SampleFileData ==
    [tags : SampleTags, comment : {None, Some("c")}, created : {0},
     updated : {None, Some(MaxClock)}]

SampleFiles ==
    {EmptyMap}
    \cup {[k \in {<<"a">>} |-> fd] : fd \in SampleFileData}
    \cup {[k \in {<<"a">>, <<"d1", "b">>} |->
              IF k = <<"a">> THEN fd ELSE FileData_default(1)] : fd \in SampleFileData}

SampleCollections ==
    {EmptyMap,
     [n \in {"c"} |-> {}],
     [n \in {"c"} |-> {<<"a">>, <<"d1", "b">>}],
     [n \in {"c", "x"} |-> IF n = "c" THEN {<<"a">>} ELSE {}]}

SampleDbs ==
    [files : SampleFiles, collections : SampleCollections,
     tags : {EmptyMap, [n \in {"t1"} |-> Some(Simple("s"))]},
     comment : {None, Some("c")}, created : {0}, updated : {None, Some(1)}]

InitSave ==
    /\ fs \in InitedTrees
    /\ now = 1
    /\ last = NoLast
    /\ pc = <<>>
    /\ ctx = <<>>
    /\ hist = <<>>

\* a command between its load and the return of its save
save_changed(tree, cwd, db) ==
    With(cwd_load(tree, cwd), LAMBDA loaded :
        IF ~loaded.ok
        THEN Outcome(FALSE, loaded.err, <<>>, tree, NoContext)
        ELSE With(save(tree, [loaded.ctx EXCEPT !.db = db]), LAMBDA saved :
                 Outcome(saved.ok, saved.err, <<>>, saved.fs,
                         [loaded.ctx EXCEPT !.db = db])))

SaveCmd ==
    /\ Once
    /\ now' = now + 1
    /\ \E cwd \in Levels, db \in SampleDbs :
           Finish("save", cwd, db, save_changed(fs, cwd, db))

SpecSave == InitSave /\ [][SaveCmd]_vars

----------------------------------------------------------------------------
(* SpecRace: two set processes on one store, each a sequence of system     *)
(* calls: read the db file (and change the store in memory), open it with  *)
(* truncate, write the serialized store.  A process can be killed between  *)
(* its open and its write.  There is no lock anywhere in the code.         *)

Procs == {1, 2}

Idle == [args |-> NoSetArgs, cwd |-> 0, loaded |-> NoContext, context |-> NoContext]

DbFile(tree, path) == tree[path.level].db[path.format]

InitRace ==
    /\ fs \in InitedTrees
    /\ now = 1
    /\ last = NoLast
    /\ pc = [p \in Procs |-> "start"]
    /\ ctx = [p \in Procs |-> Idle]
    /\ hist = <<>>

\* set_data up to the save: Context::cwd_load, then the changes in memory
Load(p) ==
    /\ pc[p] = "start"
    /\ \E cwd \in Levels, args \in SetInputs :
       \E loaded \in {cwd_load(fs, cwd)} :
           IF ~loaded.ok
           THEN /\ pc' = [pc EXCEPT ![p] = "failed"]
                /\ UNCHANGED <<ctx, hist>>
           ELSE /\ pc' = [pc EXCEPT ![p] = "loaded"]
                /\ ctx' = [ctx EXCEPT ![p] =
                              [args |-> args, cwd |-> cwd, loaded |-> loaded.ctx,
                               context |-> set_in_memory(loaded.ctx, args, cwd, now).ctx]]
                /\ hist' = Append(hist, [op |-> "load", p |-> p])
    /\ UNCHANGED <<fs, now, last>>

\* variant: the save happens in one step, the file is never seen truncated
Open_atomic(p) ==
    /\ pc[p] = "loaded"
    /\ \E saved \in {save(fs, ctx[p].context)} :
           IF ~saved.ok
           THEN /\ pc' = [pc EXCEPT ![p] = "failed"]
                /\ UNCHANGED <<fs, hist>>
           ELSE /\ pc' = [pc EXCEPT ![p] = "done"]
                /\ fs' = saved.fs
                /\ hist' = Append(hist, [op |-> "save", p |-> p])
    /\ UNCHANGED <<now, last, ctx>>

\* write_file: OpenOptions::new().write(true).truncate(true).open(path)
Open(p) ==
    /\ pc[p] = "loaded"
    /\ \E opened \in {open_truncate(fs, ctx[p].context.path, FALSE)} :
           IF ~opened.ok
           THEN /\ pc' = [pc EXCEPT ![p] = "failed"]
                /\ UNCHANGED <<fs, hist>>
           ELSE /\ pc' = [pc EXCEPT ![p] = "opened"]
                /\ fs' = opened.fs
                /\ hist' = Append(hist, [op |-> "open", p |-> p])
    /\ UNCHANGED <<now, last, ctx>>

\* write_file: the serializer writes into the BufWriter, which is flushed
Write(p) ==
    /\ pc[p] = "opened"
    /\ pc' = [pc EXCEPT ![p] = "done"]
    /\ fs' = write_serialized(fs, ctx[p].context)
    /\ hist' = Append(hist, [op |-> "save", p |-> p])
    /\ UNCHANGED <<now, last, ctx>>

\* the process is interrupted after the open returned, before anything is written
Kill(p) ==
    /\ pc[p] = "opened"
    /\ pc' = [pc EXCEPT ![p] = "killed"]
    /\ UNCHANGED <<fs, now, last, ctx, hist>>

NextRace == \E p \in Procs : Load(p) \/ Open(p) \/ Write(p) \/ Kill(p)

SpecRace == InitRace /\ [][NextRace]_vars

----------------------------------------------------------------------------
(* Reading the disk back, for the properties below *)

\* the file entry stored for a path given in cwd: Some(entry), or None
EntryAt(tree, cwd, path) ==
    With(cwd_load(tree, cwd), LAMBDA loaded :
        IF ~loaded.ok THEN None
        ELSE With(from_root(loaded.ctx.root, path, cwd), LAMBDA key :
                 IF key.ok /\ ContainsKey(loaded.ctx.db.files, key.db_entry)
                 THEN Some(loaded.ctx.db.files[key.db_entry])
                 ELSE None))

\* the last command got as far as its save (or, for init, its create)
ReachedSave ==
    /\ last.cmd \in {"init", "set", "rename", "save"}
    /\ last.mem # NoContext
    /\ ~Printed(last, "current not found in db")
    /\ ~Printed(last, "the renamed path does not exist")

----------------------------------------------------------------------------
(* C1: renaming `old` to `new` when `new` already has an entry reports     *)
(* that the target exists, and the persisted store still holds both the    *)
(* `old` and the `new` entry with the data they had before.                *)

RenameOntoExisting ==
    /\ last.cmd = "rename"
    /\ ~last.args.exists
    /\ last.args.current # last.args.renamed
    /\ IsSome(EntryAt(last.before, last.cwd, last.args.current))
    /\ IsSome(EntryAt(last.before, last.cwd, last.args.renamed))

C1_RenameOntoExistingKeepsBoth ==
    RenameOntoExisting =>
        /\ Printed(last, "renamed already exists in db")
        /\ EntryAt(fs, last.cwd, last.args.current)
               = EntryAt(last.before, last.cwd, last.args.current)
        /\ EntryAt(fs, last.cwd, last.args.renamed)
               = EntryAt(last.before, last.cwd, last.args.renamed)

(* What the code does there: the target is reported and kept, the entry    *)
(* under `old` is gone from the persisted store.                           *)
C1_RenameOntoExistingDropsOld ==
    RenameOntoExisting =>
        /\ Printed(last, "renamed already exists in db")
        /\ EntryAt(fs, last.cwd, last.args.current) = None
        /\ EntryAt(fs, last.cwd, last.args.renamed)
               = EntryAt(last.before, last.cwd, last.args.renamed)

----------------------------------------------------------------------------
(* C6: in each of the three formats, after a command saved the store, a    *)
(* fresh load yields the store the command held in memory when it saved,   *)
(* whatever was changed in it: the same file entries under the same keys,  *)
(* collections, store tags, comment and timestamps.                        *)

C6_SaveThenLoad ==
    (ReachedSave /\ last.ok) =>
        cwd_load(fs, last.cwd) = [ok |-> TRUE, err |-> "", ctx |-> last.mem]

\* a binary store saved with two collections, a store tag, and an entry
\* that carries a URL tag, a presence-only tag, a comment and both timestamps
C6_Witness ==
    /\ last.cmd = "save"
    /\ last.ok
    /\ last.mem.format = "Binary"
    /\ DOMAIN last.mem.db.collections = {"c", "x"}
    /\ DOMAIN last.mem.db.tags = {"t1"}
    /\ ContainsKey(last.mem.db.files, <<"a">>)
    /\ last.mem.db.files[<<"a">>].tags = [n \in {"t1", "t2"} |->
                                             IF n = "t1" THEN None ELSE Some(Url("u"))]
    /\ IsSome(last.mem.db.files[<<"a">>].comment)
    /\ IsSome(last.mem.db.files[<<"a">>].updated)
    /\ cwd_load(fs, last.cwd).ctx.db = last.mem.db

----------------------------------------------------------------------------
(* C7: when the locator finds no store from the working directory, a       *)
(* command that loads the store fails with "no db found", holds nothing in *)
(* memory and leaves the disk as it was.                                   *)

----------------------------------------------------------------------------
(* C2: there is no lock.  When two set processes have both loaded the      *)
(* store before either saves, and then save one after the other, both      *)
(* saves succeed, both worked on the store as it was before either save,   *)
(* and the db file holds exactly what the second saver had in memory: the  *)
(* change of the first saver is not in it.                                 *)

LoadsThenSaves ==
    /\ Len(hist) = 6
    /\ hist[1].op = "load" /\ hist[2].op = "load"
    /\ hist[3].op = "open" /\ hist[4] = [op |-> "save", p |-> hist[3].p]
    /\ hist[5].op = "open" /\ hist[6] = [op |-> "save", p |-> hist[5].p]

OnDisk(p) == DbFile(fs, ctx[p].context.path).data

C2_LostUpdate ==
    LoadsThenSaves =>
        /\ \A p \in Procs : pc[p] = "done"
        /\ ctx[hist[4].p].loaded = ctx[hist[6].p].loaded
        /\ OnDisk(hist[6].p) = Serialize(ctx[hist[6].p].context.format,
                                         ctx[hist[6].p].context.db)
        /\ cwd_load(fs, ctx[hist[6].p].cwd)
               = [ok |-> TRUE, err |-> "", ctx |-> ctx[hist[6].p].context]

\* the first saver added a file entry that the store on disk does not have
C2_Witness ==
    /\ LoadsThenSaves
    /\ \A p \in Procs : pc[p] = "done"
    /\ \E key \in DOMAIN ctx[hist[4].p].context.db.files :
           ~ContainsKey(cwd_load(fs, ctx[hist[6].p].cwd).ctx.db.files, key)

----------------------------------------------------------------------------
(* C3: a save is two steps.  The step that takes a process from its        *)
(* changed store in memory towards the disk only opens the db file with    *)
(* truncate: right after it the file is empty, is neither the store that   *)
(* was persisted before nor the store in memory, and does not deserialize. *)

C3_SaveTruncatesFirst ==
    [][\A p \in Procs :
          (pc[p] = "loaded" /\ pc'[p] # "loaded" /\ pc'[p] # "failed") =>
              /\ pc'[p] = "opened"
              /\ DbFile(fs', ctx[p].context.path).data = <<>>
              /\ DbFile(fs', ctx[p].context.path).data
                     # Serialize(ctx[p].loaded.format, ctx[p].loaded.db)
              /\ DbFile(fs', ctx[p].context.path).data
                     # Serialize(ctx[p].context.format, ctx[p].context.db)
              /\ ~Deserialize(ctx[p].context.format,
                              DbFile(fs', ctx[p].context.path).data).ok]_vars

\* a process was killed after its open, nobody wrote since: the store is
\* truncated on disk and the next load fails
C3_Witness ==
    \E p \in Procs :
        /\ pc[p] = "killed"
        /\ \A q \in Procs \ {p} : pc[q] = "start"
        /\ OnDisk(p) = <<>>
        /\ cwd_load(fs, ctx[p].cwd).err = "failed deserializing db"

----------------------------------------------------------------------------
(* C4: the locator stops at the nearest ancestor that has a marker         *)
(* directory: it returns a store of that directory, or None; never a store *)
(* of an ancestor beyond it.                                               *)

HasMarker(tree, level) == tree[level].fsm = "dir"

HasStoreFile(tree, level) ==
    HasMarker(tree, level) /\ \E f \in Formats : tree[level].db[f].kind = "file"

C4_StopsAtFirstMarker ==
    (last.cmd = "locate" /\ IsSome(last.found)) =>
        \A level \in Unwrap(last.found).level .. last.cwd :
            HasMarker(last.before, level) => level = Unwrap(last.found).level

\* the nearest marker directory holds no store file and the locator returns
\* the store of a farther ancestor
C4_FallsThrough ==
    /\ last.cmd = "locate"
    /\ IsSome(last.found)
    /\ \E level \in Levels :
           /\ level > Unwrap(last.found).level
           /\ level <= last.cwd
           /\ HasMarker(last.before, level)
           /\ ~HasStoreFile(last.before, level)

----------------------------------------------------------------------------
(* C5: the locator returns the first regular db file in the order: nearer  *)
(* directory before farther, and within a marker directory pretty JSON     *)
(* before compact JSON before binary; None when there is no such file.     *)

Candidates(tree, cwd) ==
    {[level |-> level, format |-> f] : level \in 0 .. cwd, f \in Formats}
    \cap {c \in [level : Levels, format : Formats] :
             HasMarker(tree, c.level) /\ tree[c.level].db[c.format].kind = "file"}

Wins(f, g) ==
    \/ f = "JsonPretty" /\ g \in {"Json", "Binary"}
    \/ f = "Json" /\ g = "Binary"

Precedes(c, d) ==
    \/ c.level > d.level
    \/ c.level = d.level /\ Wins(c.format, d.format)

C5_FirstInOrder ==
    last.cmd = "locate" =>
        IF Candidates(last.before, last.cwd) = {}
        THEN last.found = None
        ELSE /\ IsSome(last.found)
             /\ Unwrap(last.found) \in Candidates(last.before, last.cwd)
             /\ \A d \in Candidates(last.before, last.cwd) \ {Unwrap(last.found)} :
                    Precedes(Unwrap(last.found), d)

\* all three formats coexist in the nearest marker directory and a farther
\* ancestor has a store too
C5_Witness ==
    /\ last.cmd = "locate"
    /\ IsSome(last.found)
    /\ \A f \in Formats :
           [level |-> Unwrap(last.found).level, format |-> f]
               \in Candidates(last.before, last.cwd)
    /\ \E d \in Candidates(last.before, last.cwd) : d.level < Unwrap(last.found).level

----------------------------------------------------------------------------
(* C8: a set or a get given a batch of paths, some of which do not         *)
(* resolve, ends successfully and prints one line per path that failed.    *)
(* The set leaves the disk as the same set would with only the paths that  *)
(* resolve, and what it held in memory is what a fresh load yields.  The   *)
(* get leaves the disk alone and, but for the lines of the failures,       *)
(* prints what the same get would with only the paths that resolve.        *)

Resolves(tree, cwd, path) ==
    from_root(cwd_load(tree, cwd).ctx.root, path, cwd).ok

Resolving(tree, cwd, files) ==
    SelectSeq(files, LAMBDA path : Resolves(tree, cwd, path))

Failures(tree, cwd, files) == Len(files) - Len(Resolving(tree, cwd, files))

WithoutFailing == [last.args EXCEPT !.files = Resolving(last.before, last.cwd, @)]

IsErrLine(line) == line.kind = "error"
IsNoErrLine(line) == line.kind # "error"

C8_FailingPathSkipped ==
    /\ (last.cmd = "set" /\ cwd_load(last.before, last.cwd).ok) =>
           /\ last.ok
           /\ Len(last.msgs) = Failures(last.before, last.cwd, last.args.files)
           /\ fs = set_data(last.before, last.cwd, WithoutFailing, last.t).fs
           /\ cwd_load(fs, last.cwd) = [ok |-> TRUE, err |-> "", ctx |-> last.mem]
    /\ (last.cmd = "get" /\ cwd_load(last.before, last.cwd).ok) =>
           /\ last.ok
           /\ fs = last.before
           /\ Len(SelectSeq(last.msgs, IsErrLine))
                  = Failures(last.before, last.cwd, last.args.files)
           /\ SelectSeq(last.msgs, IsNoErrLine)
                  = get_data(last.before, last.cwd, WithoutFailing).msgs

\* the first path of the batch fails, the second resolves and gets its entry
C8_Witness ==
    /\ last.cmd = "set"
    /\ last.ok
    /\ Len(last.args.files) = 2
    /\ ~Resolves(last.before, last.cwd, last.args.files[1])
    /\ EntryAt(last.before, last.cwd, last.args.files[2]) = None
    /\ IsSome(EntryAt(fs, last.cwd, last.args.files[2]))

----------------------------------------------------------------------------
(* C9: init in a directory whose marker directory already holds a store    *)
(* file.  As claimed: it ends in an error.                                 *)

InitOnExisting ==
    /\ last.cmd = "init"
    /\ HasStoreFile(last.before, last.cwd)

C9_InitOnExistingFails ==
    InitOnExisting => ~last.ok

\* the kind of the first db file name, in probe order, that is taken
FirstTaken(tree, cwd) ==
    IF tree[cwd].db["JsonPretty"].kind # "none" THEN tree[cwd].db["JsonPretty"].kind
    ELSE IF tree[cwd].db["Json"].kind # "none" THEN tree[cwd].db["Json"].kind
    ELSE tree[cwd].db["Binary"].kind

(* C9, as the code has it: init changes nothing on disk; when the first    *)
(* db file name that is taken is a regular file it prints "a db file       *)
(* already exists" and ends successfully, and it ends in an error only     *)
(* when that name is taken by something that is not a regular file.        *)
C9_InitOnExistingKeepsAndReports ==
    InitOnExisting =>
        /\ fs = last.before
        /\ IF FirstTaken(last.before, last.cwd) = "file"
           THEN last.ok /\ last.msgs = <<"a db file already exists">>
           ELSE /\ ~last.ok
                /\ last.err = "a file system item exists with the name of a db file"
                /\ last.msgs = <<>>

C9_Witness ==
    /\ InitOnExisting
    /\ last.ok
    /\ Printed(last, "a db file already exists")
    /\ last.args # "Json"
    /\ FirstTaken(last.before, last.cwd) = "file"

----------------------------------------------------------------------------
(* C10: after a successful drop the db file that was loaded and its marker *)
(* directory are gone, nothing else changed, and the locator run from the  *)
(* former store root does not return that store.                           *)

Dropped == Unwrap(find_file(last.before, last.cwd))

C10_DropRemovesStore ==
    (last.cmd = "drop" /\ last.ok) =>
        /\ fs[Dropped.level].fsm = "none"
        /\ DbFile(fs, Dropped).kind = "none"
        /\ \A level \in Levels \ {Dropped.level} : fs[level] = last.before[level]
        /\ find_file(fs, Dropped.level) # Some(Dropped)

\* the store is gone and the locator finds the store of a farther ancestor
C10_Witness ==
    /\ last.cmd = "drop"
    /\ last.ok
    /\ IsSome(find_file(fs, Dropped.level))

----------------------------------------------------------------------------
(* SpecFilter: one check_filter of a container, whose tags carry values of *)
(* every kind or none, against an include list and an exclude list of up   *)
(* to MaxBatch names each.                                                 *)

FilterNames == {"t1", "t2", "a"}

FilterLists == UNION {[1 .. n -> FilterNames] : n \in 0 .. MaxBatch}

InitFilter ==
    /\ fs = EmptyTree
    /\ now = 0
    /\ last = NoLast
    /\ pc = <<>>
    /\ ctx \in [meta : {Meta([FileData_default(0) EXCEPT !.tags = tags]) :
                           tags \in SampleTags},
                args : {[NoGetArgs EXCEPT !.includes_tags = includes,
                                          !.excludes_tags = excludes] :
                           includes \in FilterLists, excludes \in FilterLists}]
    /\ hist = <<>>

CheckFilter ==
    /\ Once
    /\ last' = [cmd |-> "check_filter", meta |-> ctx.meta, args |-> ctx.args,
                passed |-> check_filter(ctx.meta, ctx.args)]
    /\ UNCHANGED <<fs, now, pc, ctx, hist>>

SpecFilter == InitFilter /\ [][CheckFilter]_vars

----------------------------------------------------------------------------
(* C11: a container passes the filter exactly when its tag map has every   *)
(* name of the include list and none of the exclude list.  Only the names  *)
(* count: a container with the same names and other values, or none,       *)
(* passes or fails alike.  An empty list asks for nothing.                 *)

Elems(list) == {list[i] : i \in 1 .. Len(list)}

C11_FilterByKeyPresence ==
    last.cmd = "check_filter" =>
        /\ last.passed = (/\ Elems(last.args.includes_tags) \subseteq DOMAIN last.meta.tags
                          /\ Elems(last.args.excludes_tags) \cap DOMAIN last.meta.tags = {})
        /\ \A tags \in SampleTags :
               DOMAIN tags = DOMAIN last.meta.tags =>
                   check_filter([last.meta EXCEPT !.tags = tags], last.args) = last.passed
        /\ (last.args.includes_tags = <<>> /\ last.args.excludes_tags = <<>>) => last.passed

\* a tag without a value satisfies an include, next to an exclude that is absent
C11_Witness ==
    /\ last.cmd = "check_filter"
    /\ last.passed
    /\ last.args.includes_tags = <<"t1">>
    /\ last.meta.tags["t1"] = None
    /\ last.args.excludes_tags = <<"a">>

----------------------------------------------------------------------------
(* SpecSort: get's list of selected items, built by one sorted_insert      *)
(* after the other under a list of one or two sort criteria.  The items    *)
(* inserted are any file entries, also ones that agree in every criterion, *)
(* and the search may return any of the items that compare Equal.  pc      *)
(* holds, for each place of the list, the rank of its item in the order of *)
(* insertion.                                                              *)

\* longest list built
MaxItems == 3

SortCriteria == {"Name", "Date", "Created", "Updated"}

SortLists == UNION {[1 .. n -> SortCriteria] : n \in 1 .. 2}

SortItems ==
    {[key |-> Owned(name),
      meta |-> Meta([FileData_default(created) EXCEPT !.updated = updated])] :
        name \in {<<"a">>, <<"b">>}, created \in {0, 1}, updated \in {None, Some(1)}}

InitSort ==
    /\ fs = EmptyTree
    /\ now = 0
    /\ last = NoLast
    /\ pc = <<>>
    /\ ctx \in [sort_by : SortLists]
    /\ hist = <<>>

SortedInsert ==
    /\ Len(hist) < MaxItems
    /\ \E item \in SortItems :
           \E index \in binary_search_by(hist, item.key, item.meta, ctx.sort_by) :
               /\ hist' = insert(hist, index, item)
               /\ pc' = insert(pc, index, Len(pc) + 1)
               /\ last' = [cmd |-> "sorted_insert", item |-> item, index |-> index,
                           before |-> hist]
    /\ UNCHANGED <<fs, now, ctx>>

SpecSort == InitSort /\ [][SortedInsert]_vars

----------------------------------------------------------------------------
(* The order the sort criteria ask for, said without the comparator:       *)
(* Name orders by key, Created by the creation time, Updated by the update *)
(* time with the entries never updated last, Date by the update time when  *)
(* there is one and the creation time otherwise.                           *)

EffectiveDate(item) ==
    IF item.meta.updated # None THEN item.meta.updated[1] ELSE item.meta.created

Same(by, x, y) ==
    CASE by = "Name" -> x.key = y.key
      [] by = "Created" -> x.meta.created = y.meta.created
      [] by = "Updated" -> x.meta.updated = y.meta.updated
      [] by = "Date" -> EffectiveDate(x) = EffectiveDate(y)

Before(by, x, y) ==
    CASE by = "Name" -> KeyLess(x.key.name, y.key.name)
      [] by = "Created" -> x.meta.created < y.meta.created
      [] by = "Updated" ->
             /\ x.meta.updated # None
             /\ y.meta.updated # None => x.meta.updated[1] < y.meta.updated[1]
      [] by = "Date" -> EffectiveDate(x) < EffectiveDate(y)

\* x and y agree in the first n criteria
SameUpTo(sort_by, n, x, y) == \A k \in 1 .. n : Same(sort_by[k], x, y)

\* y does not belong before x: the first criterion that tells them apart,
\* if there is one, puts x first
InOrder(sort_by, x, y) ==
    \A k \in 1 .. Len(sort_by) :
        SameUpTo(sort_by, k - 1, x, y) => ~Before(sort_by[k], y, x)

----------------------------------------------------------------------------
(* C12: whatever entries are inserted one at a time, and whatever the list *)
(* of sort criteria, the list is in the order of the criteria: of two      *)
(* items, the one further down is never before the other by the first      *)
(* criterion that tells them apart.                                        *)

----------------------------------------------------------------------------
(* C13: the sort is stable: items that agree in every criterion are in the *)
(* list in the order they were inserted.                                   *)

C13_EqualItemsKeepInsertionOrder ==
    \A i, j \in 1 .. Len(hist) :
        (i < j /\ SameUpTo(ctx.sort_by, Len(ctx.sort_by), hist[i], hist[j]))
            => pc[i] < pc[j]

\* an item was inserted before an item it agrees with in every criterion
C13_InsertedBeforeEqual ==
    /\ last.cmd = "sorted_insert"
    /\ last.index <= Len(last.before)
    /\ SameUpTo(ctx.sort_by, Len(ctx.sort_by), last.item, last.before[last.index])
    /\ hist[last.index] = last.item
    /\ pc[last.index] > pc[last.index + 1]

----------------------------------------------------------------------------
(* C14: where Updated is a criterion and the criteria before it do not     *)
(* tell two items apart, the one with an update time is before the one     *)
(* without, whatever their creation times and the order of insertion; and  *)
(* two items without an update time are in the order of the criteria after *)
(* Updated.                                                                *)

NeverUpdated(item) == item.meta.updated = None

C14_NeverUpdatedLast ==
    \A k \in 1 .. Len(ctx.sort_by) :
        ctx.sort_by[k] = "Updated" =>
            \A i, j \in 1 .. Len(hist) :
                SameUpTo(ctx.sort_by, k - 1, hist[i], hist[j]) =>
                    /\ (~NeverUpdated(hist[i]) /\ NeverUpdated(hist[j])) => i < j
                    /\ (NeverUpdated(hist[i]) /\ NeverUpdated(hist[j]) /\ i < j) =>
                           InOrder(SubSeq(ctx.sort_by, k + 1, Len(ctx.sort_by)),
                                   hist[i], hist[j])

\* an updated item, created later and inserted later, is before one never
\* updated; and two never updated are told apart by the criterion after
C14_Witness ==
    /\ ctx.sort_by[1] = "Updated"
    /\ Len(ctx.sort_by) = 2
    /\ \E i, j \in 1 .. Len(hist) :
           /\ i < j
           /\ ~NeverUpdated(hist[i])
           /\ NeverUpdated(hist[j])
           /\ hist[i].meta.created > hist[j].meta.created
           /\ pc[i] > pc[j]
    /\ \E i, j \in 1 .. Len(hist) :
           /\ i < j
           /\ NeverUpdated(hist[i])
           /\ NeverUpdated(hist[j])
           /\ Before(ctx.sort_by[2], hist[i], hist[j])
           /\ pc[i] > pc[j]

----------------------------------------------------------------------------
(* SpecTags: one update_tags of a tag map, for the arguments clap lets     *)
(* through: --drop-all goes with no tag option and no --drop; --replace    *)
(* goes with anything.  The new tags name tags the map has and tags it has *)
(* not, a name also twice, and a name that is dropped as well.             *)

TagArgs ==
    {[NoSetArgs EXCEPT !.replace = replace, !.tag = tag, !.tag_url = tag_url,
                       !.tag_num = tag_num, !.tag_bool = tag_bool, !.drop = drop] :
        replace \in BOOLEAN,
        tag \in {<<>>, <<<<"t1", None>>>>, <<<<"a", Some(Simple("s"))>>>>,
                 <<<<"a", None>>, <<"a", Some(Simple("x"))>>>>},
        tag_url \in {<<>>, <<<<"t2", Some(Url("u"))>>>>},
        tag_num \in {<<>>, <<<<"t1", Some(Number(2))>>>>},
        tag_bool \in {<<>>, <<<<"a", Some(Bool(FALSE))>>>>},
        drop \in UNION {[1 .. n -> {"t1", "t2"}] : n \in 0 .. MaxBatch}}
    \cup {[NoSetArgs EXCEPT !.replace = replace, !.drop_all = TRUE] :
             replace \in BOOLEAN}

InitTags ==
    /\ fs = EmptyTree
    /\ now = 0
    /\ last = NoLast
    /\ pc = <<>>
    /\ ctx \in [tags : SampleTags, args : TagArgs]
    /\ hist = <<>>

UpdateTags ==
    /\ Once
    /\ last' = [cmd |-> "update_tags", args |-> ctx.args, before |-> ctx.tags,
                tags |-> update_tags(ctx.args, ctx.tags)]
    /\ UNCHANGED <<fs, now, pc, ctx, hist>>

SpecTags == InitTags /\ [][UpdateTags]_vars

----------------------------------------------------------------------------
(* C15: the tag map after update_tags.  With --drop-all it is empty.       *)
(* Otherwise, when new tags are given, it is the prior map without the     *)
(* dropped names, or the empty map under --replace, with every new tag     *)
(* put over it.  With no new tag, no --drop and no --drop-all it is the    *)
(* prior map, with or without --replace.  Without --drop-all and           *)
(* --replace, a tag that is neither dropped nor given keeps its value.     *)

\* the tags given, in the order the options are applied
NewTags(args) == args.tag \o args.tag_url \o args.tag_num \o args.tag_bool

NewNames(args) == {NewTags(args)[i][1] : i \in 1 .. Len(NewTags(args))}

\* the value a name gets: that of the last tag given under the name
NewValue(args, name) ==
    NewTags(args)[CHOOSE i \in 1 .. Len(NewTags(args)) :
                     /\ NewTags(args)[i][1] = name
                     /\ \A j \in (i + 1) .. Len(NewTags(args)) :
                            NewTags(args)[j][1] # name][2]

\* the names left of the prior map before the new tags are put over it
KeptNames(args, before) ==
    IF args.replace THEN {} ELSE (DOMAIN before) \ Elems(args.drop)

C15_ReplaceAloneKeeps ==
    /\ last.cmd = "update_tags"
    /\ last.args.replace
    /\ last.before # EmptyMap
    /\ last.tags = last.before

----------------------------------------------------------------------------
(* SpecStamps: sets one after the other, each at a later time, on a store  *)
(* that an init left empty.  A set names one or more paths, possibly the   *)
(* same path twice.  hist counts, for each key, the sets of it that were   *)
(* carried out (1, or 2 for two or more), with the time of the first and   *)
(* of the latest.                                                          *)

StampBatches == UNION {[1 .. n -> {PathA, PathB}] : n \in 1 .. MaxBatch}

\* ctx is the directory the init ran in, where the sets run as well
InitStamps ==
    /\ ctx \in Levels
    /\ fs \in {init_db(EmptyTree, ctx, format, 0).fs : format \in Formats}
    /\ now = 1
    /\ last = NoLast
    /\ pc = <<>>
    /\ hist = EmptyMap

\* the sets of the keys the paths resolve to, counted in the order given
RECURSIVE Counted(_, _, _, _, _)
Counted(counts, root, files, cwd, t) ==
    IF Len(files) = 0 THEN counts
    ELSE With(from_root(root, files[1], cwd), LAMBDA path :
             IF ~path.ok THEN Counted(counts, root, Tail(files), cwd, t)
             ELSE Counted(Insert(counts, path.db_entry,
                                 IF ContainsKey(counts, path.db_entry)
                                 THEN [first |-> counts[path.db_entry].first,
                                       latest |-> t,
                                       sets |-> 2]
                                 ELSE [first |-> t, latest |-> t, sets |-> 1]),
                          root, Tail(files), cwd, t))

StampSetCmd ==
    /\ now <= MaxClock
    /\ now' = now + 1
    /\ \E change \in SetChanges, batch \in StampBatches :
           \E out \in {set_data(fs, ctx, [change EXCEPT !.files = batch], now)} :
               /\ fs' = out.fs
               /\ last' = [cmd |-> "set", ok |-> out.ok]
               /\ hist' = IF out.ok
                          THEN Counted(hist, out.mem.root, batch, ctx, now)
                          ELSE hist
    /\ UNCHANGED <<pc, ctx>>

SpecStamps == InitStamps /\ [][StampSetCmd]_vars

----------------------------------------------------------------------------
(* C16: after any sequence of sets the persisted store has an entry for    *)
(* exactly the keys that were set; its `created` is the time of the first  *)
(* set of the key; its `updated` is absent when the key was set once and   *)
(* is the time of the latest set when it was set twice or more.            *)

\* the store a load from the innermost directory yields
StoredDb == cwd_load(fs, Depth - 1).ctx.db

C16_CreatedOnceUpdatedAfter ==
    /\ DOMAIN StoredDb.files = DOMAIN hist
    /\ \A key \in DOMAIN hist :
           /\ StoredDb.files[key].created = hist[key].first
           /\ (hist[key].sets = 1) => StoredDb.files[key].updated = None
           /\ (hist[key].sets >= 2) =>
                  StoredDb.files[key].updated = Some(hist[key].latest)

\* one key set by two commands or more, another set once, by a later command
C16_Witness ==
    \E key, other \in DOMAIN hist :
        /\ hist[key].sets >= 2
        /\ hist[key].first < hist[key].latest
        /\ hist[other].sets = 1
        /\ hist[other].first > hist[key].first
        /\ StoredDb.files[key].updated = Some(hist[key].latest)

----------------------------------------------------------------------------
(* C17: a set addressed to the store itself (--self) that changes the tags *)
(* or the comment of the store stamps the store's `updated`: it is present *)
(* in the persisted store afterwards.                                      *)

\* the last command was a set --self that changed the tags or the comment
\* of the store it loaded
SelfSetChangedStore ==
    /\ last.cmd = "set"
    /\ last.ok
    /\ last.args.self_
    /\ \/ cwd_load(fs, last.cwd).ctx.db.tags
              # cwd_load(last.before, last.cwd).ctx.db.tags
       \/ cwd_load(fs, last.cwd).ctx.db.comment
              # cwd_load(last.before, last.cwd).ctx.db.comment

C17_SelfSetStampsUpdated ==
    SelfSetChangedStore => IsSome(cwd_load(fs, last.cwd).ctx.db.updated)

\* what the code does there: the tags are persisted, `updated` stays absent
C17_SelfSetLeavesUpdatedAbsent ==
    /\ SelfSetChangedStore
    /\ ContainsKey(cwd_load(fs, last.cwd).ctx.db.tags, "t1")
    /\ cwd_load(fs, last.cwd).ctx.db.updated = None

----------------------------------------------------------------------------
(* SpecPath: one from_root of a path as the user may write it, relative or *)
(* absolute, of up to MaxComps components among names, ".", ".." and a     *)
(* name that is not UTF-8, in a working directory below or at the store    *)
(* root (the locator only finds stores in the ancestors of the working     *)
(* directory).                                                             *)

\* longest path given, in components
MaxComps == 3

PathComps == {"a", "b", "d1", ".", "..", NonUtf8}

PathInputs ==
    [abs : BOOLEAN, comps : UNION {[1 .. n -> PathComps] : n \in 1 .. MaxComps}]

InitPath ==
    /\ fs = EmptyTree
    /\ now = 0
    /\ last = NoLast
    /\ pc = <<>>
    /\ ctx \in {c \in [root : Levels, cwd : Levels, given : PathInputs] :
                   c.root <= c.cwd}
    /\ hist = <<>>

Resolve ==
    /\ Once
    /\ last' = [cmd |-> "from_root", root |-> DirPath(ctx.root), cwd |-> ctx.cwd,
                given |-> ctx.given,
                result |-> from_root(DirPath(ctx.root), ctx.given, ctx.cwd)]
    /\ UNCHANGED <<fs, now, pc, ctx, hist>>

SpecPath == InitPath /\ [][Resolve]_vars

----------------------------------------------------------------------------
(* Paths, for the properties of the resolver *)

\* where a walk along the components ends: "." stays, ".." goes up (and
\* stays at the filesystem root), a name goes down
RECURSIVE Walk(_, _)
Walk(at, comps) ==
    IF comps = <<>> THEN at
    ELSE Walk(CASE comps[1] = "." -> at
                [] comps[1] = ".." -> SubSeq(at, 1, Len(at) - 1)
                [] OTHER -> at \o <<comps[1]>>,
              Tail(comps))

\* the canonical absolute path of the place a given path names
Place(given, cwd) == Walk(IF given.abs THEN <<>> ELSE DirPath(cwd), given.comps)

\* the absolute path the resolver works with: the canonical one for a
\* relative path, the path as it is written for an absolute one
Resolved(given, cwd) == IF given.abs THEN given.comps ELSE Place(given, cwd)

WithoutDot(comps) == SelectSeq(comps, LAMBDA c : c # ".")

\* the root is the beginning of the path, component by component
Under(path, root) ==
    /\ Len(root) <= Len(WithoutDot(path))
    /\ SubSeq(WithoutDot(path), 1, Len(root)) = root

RelativeTo(path, root) ==
    SubSeq(WithoutDot(path), Len(root) + 1, Len(WithoutDot(path)))

----------------------------------------------------------------------------
(* C18, as claimed: the resolver returns InvalidPrefix exactly when the    *)
(* absolute path it resolved is not under the store root; for every path   *)
(* under the root it succeeds and the key is the path relative to the      *)
(* root, component by component.                                           *)

C18_UnderRootSucceeds ==
    last.cmd = "from_root" =>
        /\ (last.result.err = "InvalidPrefix")
               <=> ~Under(Resolved(last.given, last.cwd), last.root)
        /\ Under(Resolved(last.given, last.cwd), last.root) =>
               /\ last.result.ok
               /\ WithoutDot(last.result.db_entry)
                      = RelativeTo(Resolved(last.given, last.cwd), last.root)

(* C18, as the code has it: InvalidPrefix exactly when the resolved path   *)
(* is not under the root; a path under the root whose part below the root  *)
(* is UTF-8 succeeds with that part as the key; one whose part below the   *)
(* root is not UTF-8 fails with InvalidChars.                              *)

C18_UnderRootSucceedsWhenUtf8 ==
    last.cmd = "from_root" =>
        /\ (last.result.err = "InvalidPrefix")
               <=> ~Under(Resolved(last.given, last.cwd), last.root)
        /\ Under(Resolved(last.given, last.cwd), last.root) =>
               IF NonUtf8 \in Elems(RelativeTo(Resolved(last.given, last.cwd), last.root))
               THEN ~last.result.ok /\ last.result.err = "InvalidChars"
               ELSE /\ last.result.ok
                    /\ WithoutDot(last.result.db_entry)
                           = RelativeTo(Resolved(last.given, last.cwd), last.root)

\* a relative path that leaves the working directory and stays under the root
C18_Witness ==
    /\ last.cmd = "from_root"
    /\ last.root = <<>>
    /\ last.cwd = 1
    /\ last.given = RelPath(<<"..", "a", "b">>)
    /\ last.result.ok
    /\ last.result.db_entry = <<"a", "b">>

----------------------------------------------------------------------------
(* C19: every key the resolver produces, for a relative and for an         *)
(* absolute path alike, is the canonical absolute path of the place the    *)
(* path names, without the root: it has no "." and no ".." component, and  *)
(* any other path that names the same place resolves to the same key.      *)

C19_KeysAreCanonical ==
    (last.cmd = "from_root" /\ last.result.ok) =>
        /\ "." \notin Elems(last.result.db_entry)
        /\ ".." \notin Elems(last.result.db_entry)
        /\ last.root \o last.result.db_entry = Place(last.given, last.cwd)
        /\ \A other \in PathInputs :
               (/\ Place(other, last.cwd) = Place(last.given, last.cwd)
                /\ from_root(last.root, other, last.cwd).ok)
                   => from_root(last.root, other, last.cwd).db_entry
                          = last.result.db_entry

\* what the code does: an absolute path is not made canonical, its ".." is
\* in the key, and the same place written without it has another key
C19_AbsoluteKeepsDotDot ==
    /\ last.cmd = "from_root"
    /\ last.root = <<>>
    /\ last.given = AbsPath(<<"a", "..", "b">>)
    /\ last.result.ok
    /\ last.result.db_entry = <<"a", "..", "b">>
    /\ from_root(last.root, AbsPath(<<"b">>), last.cwd).db_entry = <<"b">>

\* the keys of relative paths are canonical
C19_RelativeKeysAreCanonical ==
    (last.cmd = "from_root" /\ last.result.ok /\ ~last.given.abs) =>
        /\ "." \notin Elems(last.result.db_entry)
        /\ ".." \notin Elems(last.result.db_entry)
        /\ last.root \o last.result.db_entry = Place(last.given, last.cwd)

----------------------------------------------------------------------------
(* coll/push.rs, delete.rs, open.rs.  These commands are written against   *)
(* db::Db::cwd_load and db.inner, which here are Context::cwd_load and     *)
(* context.db.  What they print and log is a sequence of lines; a request  *)
(* handed to the opener is a line of its own.                              *)

Said(kind, text, entry) == Line(kind, text, entry, None, FALSE, 0)

\* push_coll, the loop over files_iter
RECURSIVE push_files(_, _, _, _, _)
push_files(root, files, cwd, coll, msgs) ==
    IF Len(files) = 0
    THEN [coll |-> coll, msgs |-> msgs]
    ELSE With(from_root(root, files[1], cwd), LAMBDA path_result :
             IF ~IsSome(log_result(path_result))
             THEN push_files(root, Tail(files), cwd, coll,
                             Append(msgs, Said("error", path_result.err, <<>>)))
             ELSE push_files(root, Tail(files), cwd,
                             coll \cup {Unwrap(log_result(path_result)).db_entry}, msgs))

push_coll(tree, cwd, args) ==
    With(cwd_load(tree, cwd), LAMBDA loaded :
        IF ~loaded.ok
        THEN Outcome(FALSE, loaded.err, <<>>, tree, NoContext)
        ELSE IF ~ContainsKey(loaded.ctx.db.collections, args.name)
        THEN Outcome(TRUE, "", <<Said("print", "collection not found", <<>>)>>, tree,
                     loaded.ctx)
        ELSE With(push_files(loaded.ctx.root, args.files, cwd,
                             loaded.ctx.db.collections[args.name], <<>>),
                  LAMBDA pushed :
             With([loaded.ctx EXCEPT !.db.collections[args.name] = pushed.coll],
                  LAMBDA changed :
             With(save(tree, changed), LAMBDA saved :
                 Outcome(saved.ok, saved.err, pushed.msgs, saved.fs, changed)))))

\* delete_data, the loop over db.relative_to_db(&args.files); the two log
\* lines are the way round the code has them
RECURSIVE delete_files(_, _, _, _, _)
delete_files(root, files, cwd, db_files, msgs) ==
    IF Len(files) = 0
    THEN [files |-> db_files, msgs |-> msgs]
    ELSE With(from_root(root, files[1], cwd), LAMBDA path_result :
             IF ~IsSome(log_result(path_result))
             THEN delete_files(root, Tail(files), cwd, db_files,
                               Append(msgs, Said("error", path_result.err, <<>>)))
             ELSE With(Unwrap(log_result(path_result)).db_entry, LAMBDA adjusted :
                      delete_files(root, Tail(files), cwd, Remove(db_files, adjusted),
                                   Append(msgs,
                                          Said("info",
                                               IF ContainsKey(db_files, adjusted)
                                               THEN "file not found in db"
                                               ELSE "file removed from db",
                                               adjusted)))))

\* delete_data; on_disk are the keys whose file fs::get_metadata finds
delete_data(tree, cwd, args, on_disk) ==
    With(cwd_load(tree, cwd), LAMBDA loaded :
        IF ~loaded.ok
        THEN Outcome(FALSE, loaded.err, <<>>, tree, NoContext)
        ELSE With(delete_files(loaded.ctx.root, args.files, cwd,
                               IF args.not_exists
                               THEN [key \in (DOMAIN loaded.ctx.db.files) \cap on_disk |->
                                        loaded.ctx.db.files[key]]
                               ELSE loaded.ctx.db.files,
                               <<>>),
                  LAMBDA deleted :
             With([loaded.ctx EXCEPT !.db.files = deleted.files], LAMBDA changed :
             With(save(tree, changed), LAMBDA saved :
                 Outcome(saved.ok, saved.err, deleted.msgs, saved.fs, changed)))))

\* variant: a member of the collection that has no file entry ends the loop
RECURSIVE open_members_strict(_, _, _, _, _)
open_members_strict(db, members, tag, failing, msgs) ==
    IF Len(members) = 0 THEN msgs
    ELSE IF ~ContainsKey(db.files, members[1])
    THEN Append(msgs, Said("error", "file not found in db", members[1]))
    ELSE open_members_strict(db, Tail(members), tag, failing,
             Append(msgs,
                    IF IsSome(tag) /\ ContainsKey(db.files[members[1]].tags, Unwrap(tag))
                       /\ IsSome(db.files[members[1]].tags[Unwrap(tag)])
                       /\ Unwrap(db.files[members[1]].tags[Unwrap(tag)]).variant = "Url"
                    THEN Said("open url",
                              Unwrap(db.files[members[1]].tags[Unwrap(tag)]).text,
                              members[1])
                    ELSE Said("open file", "", members[1])))

\* open_tag, the loop over the members of the collection; failing are the
\* members for which opener::open returns an error
RECURSIVE open_members(_, _, _, _, _)
open_members(db, members, tag, failing, msgs) ==
    IF Len(members) = 0 THEN msgs
    ELSE With(members[1], LAMBDA file :
         With(IF file \in failing
              THEN <<Said("print", "failed to open", file)>> ELSE <<>>,
              LAMBDA failed :
             IF IsSome(tag)
             THEN IF ~ContainsKey(db.files, file)
                  THEN open_members(db, Tail(members), tag, failing,
                           Append(msgs, Said("info", "file not found in db", file)))
                  ELSE IF ~ContainsKey(db.files[file].tags, Unwrap(tag))
                  THEN open_members(db, Tail(members), tag, failing,
                           Append(msgs, Said("info", "does not exist", file)))
                  ELSE IF ~IsSome(db.files[file].tags[Unwrap(tag)])
                  THEN open_members(db, Tail(members), tag, failing,
                           Append(msgs, Said("info", "does not exist", file)))
                  ELSE IF Unwrap(db.files[file].tags[Unwrap(tag)]).variant # "Url"
                  THEN open_members(db, Tail(members), tag, failing,
                           Append(msgs, Said("info", "is not a valid url", file)))
                  ELSE open_members(db, Tail(members), tag, failing,
                           Append(msgs,
                                  Said("open url",
                                       Unwrap(db.files[file].tags[Unwrap(tag)]).text,
                                       file)) \o failed)
             ELSE open_members(db, Tail(members), tag, failing,
                      Append(msgs, Said("open file", "", file)) \o failed)))

\* open_tag with --coll.  (The branch for a list of files goes through
\* file::CanonFiles and Db::maybe_common_root, which the repository does
\* not have.)
open_tag(tree, cwd, args, failing) ==
    With(cwd_load(tree, cwd), LAMBDA loaded :
        IF ~loaded.ok
        THEN Outcome(FALSE, loaded.err, <<>>, tree, NoContext)
        ELSE IF ~ContainsKey(loaded.ctx.db.collections, Unwrap(args.coll))
        THEN Outcome(TRUE, "", <<Said("print", "collection not found", <<>>)>>, tree,
                     loaded.ctx)
        ELSE Outcome(TRUE, "",
                     open_members(loaded.ctx.db,
                                  SortedKeys(loaded.ctx.db.collections[Unwrap(args.coll)]),
                                  args.tag, failing, <<>>),
                     tree, loaded.ctx))

----------------------------------------------------------------------------
(* SpecColl: one push, one delete or one open --coll on a store that holds *)
(* up to two file entries, whose tag t1 is a URL, a text or without value, *)
(* and no collection or the collection c, whose members may or may not     *)
(* have a file entry.                                                      *)

CollEntries ==
    {[FileData_default(0) EXCEPT !.tags = [n \in {"t1"} |-> value]] :
        value \in {Some(Url("u")), Some(Simple("s")), None}}

CollFiles ==
    UNION {[keys -> CollEntries] : keys \in SUBSET {<<"a">>, <<"b">>}}

CollDbs ==
    {[Db_default(0) EXCEPT !.files = files, !.collections = collections] :
        files \in CollFiles,
        collections \in {EmptyMap} \cup {[n \in {"c"} |-> members] :
                                            members \in SUBSET {<<"a">>, <<"b">>}}}

InitColl ==
    /\ \E format \in Formats, db \in CollDbs :
           fs = save_changed(init_db(EmptyTree, 0, format, 0).fs, 0, db).fs
    /\ now = 1
    /\ last = NoLast
    /\ pc = <<>>
    /\ ctx = <<>>
    /\ hist = <<>>

CollBatches == UNION {[1 .. n -> {PathA, PathB, PathOutside}] : n \in 1 .. MaxBatch}

PushCmd ==
    /\ Once
    /\ now' = now + 1
    /\ \E cwd \in Levels, args \in [name : {"c"}, files : CollBatches] :
           Finish("push", cwd, args, push_coll(fs, cwd, args))

\* clap: files are required unless --not-exists is given
DeleteCmd ==
    /\ Once
    /\ now' = now + 1
    /\ \E cwd \in Levels,
          args \in [not_exists : {FALSE}, files : CollBatches]
                       \cup [not_exists : {TRUE}, files : {<<>>, <<PathA>>}] :
           \E on_disk \in (IF args.not_exists THEN SUBSET {<<"a">>, <<"b">>} ELSE {{}}) :
               Finish("delete", cwd, args, delete_data(fs, cwd, args, on_disk))

OpenCmd ==
    /\ Once
    /\ now' = now + 1
    /\ \E cwd \in Levels, args \in [coll : {Some("c")}, tag : {None, Some("t1")}],
          failing \in SUBSET {<<"a">>, <<"b">>} :
           Finish("open", cwd, args, open_tag(fs, cwd, args, failing))

NextColl == PushCmd \/ DeleteCmd \/ OpenCmd

SpecColl == InitColl /\ [][NextColl]_vars

----------------------------------------------------------------------------
(* C20: the members of a collection need no file entry.  A push to a       *)
(* collection that exists succeeds and the persisted collection has the    *)
(* key of every path that resolves, with or without a file entry, the file *)
(* entries being what they were.  A delete succeeds, the named keys have   *)
(* no file entry afterwards, and every collection has the members it had.  *)
(* An open of a collection by tag succeeds; for a member without a file    *)
(* entry it logs "file not found in db" and hands nothing to the opener,   *)
(* and every member whose tag is a URL is opened, wherever it stands.      *)

\* the persisted store before and after the last command
DbBefore == cwd_load(last.before, last.cwd).ctx.db
DbAfter == cwd_load(fs, last.cwd).ctx.db

\* the keys of the paths given to the last command that resolve
KeysGiven ==
    {from_root(last.mem.root, last.args.files[i], last.cwd).db_entry :
        i \in {j \in 1 .. Len(last.args.files) :
                  from_root(last.mem.root, last.args.files[j], last.cwd).ok}}

HasUrl(db, key, tag) ==
    /\ key \in DOMAIN db.files
    /\ tag \in DOMAIN db.files[key].tags
    /\ db.files[key].tags[tag] # None
    /\ db.files[key].tags[tag][1].variant = "Url"

C20_MembersNeedNoEntry ==
    /\ (last.cmd = "push" /\ last.mem # NoContext
            /\ last.args.name \in DOMAIN DbBefore.collections) =>
           /\ last.ok
           /\ DbAfter.collections[last.args.name]
                  = DbBefore.collections[last.args.name] \cup KeysGiven
           /\ DbAfter.files = DbBefore.files
    /\ (last.cmd = "delete" /\ last.mem # NoContext) =>
           /\ last.ok
           /\ DbAfter.collections = DbBefore.collections
           /\ KeysGiven \cap DOMAIN DbAfter.files = {}
    /\ (last.cmd = "open" /\ last.mem # NoContext /\ last.args.tag # None
            /\ last.args.coll[1] \in DOMAIN DbBefore.collections) =>
           /\ last.ok
           /\ fs = last.before
           /\ \A key \in DbBefore.collections[last.args.coll[1]] :
                  /\ key \notin DOMAIN DbBefore.files =>
                         /\ Printed(last, Said("info", "file not found in db", key))
                         /\ \A i \in 1 .. Len(last.msgs) :
                                last.msgs[i].entry = key => last.msgs[i].kind = "info"
                  /\ HasUrl(DbBefore, key, last.args.tag[1]) =>
                         Printed(last, Said("open url",
                                            DbBefore.files[key].tags[last.args.tag[1]][1].text,
                                            key))

\* a collection whose first member has no file entry and whose second has
\* a URL: the first is reported as not found, the second is opened
C20_Witness ==
    /\ last.cmd = "open"
    /\ last.args.tag = Some("t1")
    /\ DbBefore.collections = [n \in {"c"} |-> {<<"a">>, <<"b">>}]
    /\ DOMAIN DbBefore.files = {<<"b">>}
    /\ last.msgs = <<Said("info", "file not found in db", <<"a">>),
                     Said("open url", "u", <<"b">>)>>

\* a key without a file entry was pushed
C20_PushedWithoutEntry ==
    /\ last.cmd = "push"
    /\ last.ok
    /\ last.args.name \in DOMAIN DbBefore.collections
    /\ \E key \in KeysGiven :
           /\ key \notin DOMAIN DbBefore.files
           /\ key \notin DbBefore.collections[last.args.name]
           /\ key \in DbAfter.collections[last.args.name]

\* a file entry was deleted and its key is still a member
C20_DeletedStaysMember ==
    /\ last.cmd = "delete"
    /\ last.ok
    /\ \E key \in KeysGiven :
           /\ key \in DOMAIN DbBefore.files
           /\ key \notin DOMAIN DbAfter.files
           /\ "c" \in DOMAIN DbAfter.collections
           /\ key \in DbAfter.collections["c"]

----------------------------------------------------------------------------
(* coll/create.rs, coll/update.rs, coll/pop.rs, coll/delete.rs *)

\* variant: create replaces a collection that exists
create_coll_replace(tree, cwd, args) ==
    With(cwd_load(tree, cwd), LAMBDA loaded :
        IF ~loaded.ok
        THEN Outcome(FALSE, loaded.err, <<>>, tree, NoContext)
        ELSE With([loaded.ctx EXCEPT !.db.collections =
                       [n \in DOMAIN @ \cup {args.name} |-> IF n = args.name THEN {} ELSE @[n]]],
                  LAMBDA changed :
             With(save(tree, changed), LAMBDA saved :
                 Outcome(saved.ok, saved.err,
                         <<Said("print", "the specified collection already exists", <<>>)>>,
                         saved.fs, changed))))

create_coll(tree, cwd, args) ==
    With(cwd_load(tree, cwd), LAMBDA loaded :
        IF ~loaded.ok
        THEN Outcome(FALSE, loaded.err, <<>>, tree, NoContext)
        ELSE IF ContainsKey(loaded.ctx.db.collections, args.name)
        THEN Outcome(TRUE, "",
                     <<Said("print", "the specified collection already exists", <<>>)>>,
                     tree, loaded.ctx)
        ELSE With([loaded.ctx EXCEPT !.db.collections = Insert(@, args.name, {})],
                  LAMBDA changed :
             With(save(tree, changed), LAMBDA saved :
                 Outcome(saved.ok, saved.err, <<>>, saved.fs, changed))))

\* update_coll: the body of push_coll over again
update_coll(tree, cwd, args) ==
    With(cwd_load(tree, cwd), LAMBDA loaded :
        IF ~loaded.ok
        THEN Outcome(FALSE, loaded.err, <<>>, tree, NoContext)
        ELSE IF ~ContainsKey(loaded.ctx.db.collections, args.name)
        THEN Outcome(TRUE, "", <<Said("print", "collection not found", <<>>)>>, tree,
                     loaded.ctx)
        ELSE With(push_files(loaded.ctx.root, args.files, cwd,
                             loaded.ctx.db.collections[args.name], <<>>),
                  LAMBDA pushed :
             With([loaded.ctx EXCEPT !.db.collections[args.name] = pushed.coll],
                  LAMBDA changed :
             With(save(tree, changed), LAMBDA saved :
                 Outcome(saved.ok, saved.err, pushed.msgs, saved.fs, changed)))))

\* variant: only the first path given is popped
pop_files_first_only(root, files, cwd, coll, msgs) ==
    IF Len(files) = 0
    THEN [coll |-> coll, msgs |-> msgs]
    ELSE [coll |-> IF from_root(root, files[1], cwd).ok
                   THEN coll \ {from_root(root, files[1], cwd).db_entry} ELSE coll,
          msgs |-> msgs]

\* pop_coll, the loop over files_iter
RECURSIVE pop_files(_, _, _, _, _)
pop_files(root, files, cwd, coll, msgs) ==
    IF Len(files) = 0
    THEN [coll |-> coll, msgs |-> msgs]
    ELSE With(from_root(root, files[1], cwd), LAMBDA path_result :
             IF ~IsSome(log_result(path_result))
             THEN pop_files(root, Tail(files), cwd, coll,
                            Append(msgs, Said("error", path_result.err, <<>>)))
             ELSE pop_files(root, Tail(files), cwd,
                            coll \ {Unwrap(log_result(path_result)).db_entry}, msgs))

\* pop_coll; on_disk are the keys whose file fs::check_exists finds
pop_coll(tree, cwd, args, on_disk) ==
    With(cwd_load(tree, cwd), LAMBDA loaded :
        IF ~loaded.ok
        THEN Outcome(FALSE, loaded.err, <<>>, tree, NoContext)
        ELSE IF ~ContainsKey(loaded.ctx.db.collections, args.name)
        THEN Outcome(TRUE, "", <<Said("print", "collection not found", <<>>)>>, tree,
                     loaded.ctx)
        ELSE With(pop_files(loaded.ctx.root, args.files, cwd,
                            IF args.no_exists
                            THEN loaded.ctx.db.collections[args.name] \cap on_disk
                            ELSE loaded.ctx.db.collections[args.name],
                            <<>>),
                  LAMBDA popped :
             With([loaded.ctx EXCEPT !.db.collections[args.name] = popped.coll],
                  LAMBDA changed :
             With(save(tree, changed), LAMBDA saved :
                 Outcome(saved.ok, saved.err, popped.msgs, saved.fs, changed)))))

\* delete_coll: what it prints with --files is the number of members and
\* then the members in the order of the set
delete_coll(tree, cwd, args) ==
    With(cwd_load(tree, cwd), LAMBDA loaded :
        IF ~loaded.ok
        THEN Outcome(FALSE, loaded.err, <<>>, tree, NoContext)
        ELSE IF ~ContainsKey(loaded.ctx.db.collections, args.name)
        THEN Outcome(TRUE, "", <<Said("print", "collection not found", <<>>)>>, tree,
                     loaded.ctx)
        ELSE With(SortedKeys(loaded.ctx.db.collections[args.name]), LAMBDA files :
             With([loaded.ctx EXCEPT !.db.collections = Remove(@, args.name)],
                  LAMBDA changed :
             With(save(tree, changed), LAMBDA saved :
                 IF ~saved.ok
                 THEN Outcome(FALSE, saved.err, <<>>, saved.fs, changed)
                 ELSE Outcome(TRUE, "",
                              IF args.files
                              THEN <<Line("print", "files", <<>>, None, FALSE, Len(files))>>
                                       \o [i \in 1 .. Len(files) |->
                                              Said("print", "", files[i])]
                              ELSE <<>>,
                              saved.fs, changed)))))

----------------------------------------------------------------------------
(* SpecMembers: pushes, pops and a delete of the collection c, one command *)
(* after the other in the store root, on a store where c was created and   *)
(* that holds any file entries.  hist is whether c should exist and the    *)
(* keys that were pushed and not popped since.                             *)

InitMembers ==
    /\ \E format \in Formats, files \in CollFiles :
           fs = create_coll(save_changed(init_db(EmptyTree, 0, format, 0).fs, 0,
                                         [Db_default(0) EXCEPT !.files = files]).fs,
                            0, [name |-> "c"]).fs
    /\ now = 1
    /\ last = NoLast
    /\ pc = <<>>
    /\ ctx = <<>>
    /\ hist = [exists |-> TRUE, members |-> {}]

MemberBatches == UNION {[1 .. n -> {PathA, PathB}] : n \in 1 .. MaxBatch}

\* the keys a batch names in the store root
Named(batch) == {batch[i].comps : i \in 1 .. Len(batch)}

MembersFinish(cmd, args, outcome, members) ==
    \E out \in {outcome} :
        /\ fs' = out.fs
        /\ last' = [cmd |-> cmd, cwd |-> 0, args |-> args, before |-> fs, t |-> now,
                    ok |-> out.ok, err |-> out.err, msgs |-> out.msgs, mem |-> out.mem]
        /\ hist' = [exists |-> hist.exists /\ cmd # "coll delete",
                    members |-> IF hist.exists THEN members ELSE hist.members]
        /\ UNCHANGED <<pc, ctx>>

MembersPushCmd ==
    /\ now <= MaxClock
    /\ now' = now + 1
    /\ \E args \in [name : {"c"}, files : MemberBatches] :
           MembersFinish("coll push", args, push_coll(fs, 0, args),
                         hist.members \cup Named(args.files))

\* clap: files are required unless --no-exists is given
MembersPopCmd ==
    /\ now <= MaxClock
    /\ now' = now + 1
    /\ \E args \in [name : {"c"}, no_exists : {FALSE}, files : MemberBatches]
                       \cup [name : {"c"}, no_exists : {TRUE}, files : {<<>>, <<PathA>>}] :
           \E on_disk \in (IF args.no_exists THEN SUBSET {<<"a">>, <<"b">>}
                           ELSE {{<<"a">>, <<"b">>}}) :
               MembersFinish("coll pop", args, pop_coll(fs, 0, args, on_disk),
                             (hist.members \cap on_disk) \ Named(args.files))

MembersDeleteCmd ==
    /\ now <= MaxClock
    /\ now' = now + 1
    /\ \E args \in [name : {"c"}, files : BOOLEAN] :
           MembersFinish("coll delete", args, delete_coll(fs, 0, args), hist.members)

NextMembers == MembersPushCmd \/ MembersPopCmd \/ MembersDeleteCmd

SpecMembers == InitMembers /\ [][NextMembers]_vars

----------------------------------------------------------------------------
(* C21: after any pushes and pops the persisted collection holds exactly   *)
(* the keys pushed and not popped since.  A delete of the collection with  *)
(* --files prints the number of those keys and then each of them once;     *)
(* after it the persisted store has no such collection and the file        *)
(* entries it had.                                                         *)

NoLineTwice(lines) ==
    \A i, j \in 1 .. Len(lines) : lines[i] = lines[j] => i = j

C21_CollectionIsASet ==
    /\ hist.exists =>
           /\ "c" \in DOMAIN StoredDb.collections
           /\ StoredDb.collections["c"] = hist.members
    /\ ~hist.exists => "c" \notin DOMAIN StoredDb.collections
    /\ (last.cmd = "coll delete" /\ last.args.files
            /\ "c" \in DOMAIN DbBefore.collections) =>
           /\ last.ok
           /\ Len(last.msgs) = 1 + Cardinality(hist.members)
           /\ last.msgs[1] = Line("print", "files", <<>>, None, FALSE,
                                  Cardinality(hist.members))
           /\ {last.msgs[i].entry : i \in 2 .. Len(last.msgs)} = hist.members
           /\ NoLineTwice(last.msgs)
           /\ DbAfter.files = DbBefore.files
           /\ DbBefore.files # EmptyMap => DbAfter.files # EmptyMap

\* a key pushed twice and another pushed and popped, then the delete
\* reports one key
C21_Witness ==
    /\ last.cmd = "coll delete"
    /\ last.args.files
    /\ hist.members = {<<"a">>}
    /\ last.msgs = <<Line("print", "files", <<>>, None, FALSE, 1),
                     Said("print", "", <<"a">>)>>
    /\ DOMAIN DbAfter.files = {<<"a">>, <<"b">>}
    /\ now = 4

----------------------------------------------------------------------------
(* SpecOutcomes: one collection command or one rename on a sample store,   *)
(* naming the collection c, which the store may hold, or x, which it never *)
(* holds.                                                                  *)

CollNames == {"c", "x"}

OutCreateCmd ==
    /\ Once
    /\ now' = now + 1
    /\ \E cwd \in Levels, args \in [name : CollNames] :
           Finish("coll create", cwd, args, create_coll(fs, cwd, args))

OutPushCmd ==
    /\ Once
    /\ now' = now + 1
    /\ \E cwd \in Levels, args \in [name : CollNames, files : CollBatches] :
           Finish("coll push", cwd, args, push_coll(fs, cwd, args))

OutUpdateCmd ==
    /\ Once
    /\ now' = now + 1
    /\ \E cwd \in Levels, args \in [name : CollNames, files : CollBatches] :
           Finish("coll update", cwd, args, update_coll(fs, cwd, args))

OutPopCmd ==
    /\ Once
    /\ now' = now + 1
    /\ \E cwd \in Levels,
          args \in [name : CollNames, no_exists : {FALSE}, files : CollBatches]
                       \cup [name : CollNames, no_exists : {TRUE}, files : {<<>>, <<PathA>>}] :
           \E on_disk \in (IF args.no_exists THEN SUBSET {<<"a">>, <<"b">>} ELSE {{}}) :
               Finish("coll pop", cwd, args, pop_coll(fs, cwd, args, on_disk))

OutDeleteCmd ==
    /\ Once
    /\ now' = now + 1
    /\ \E cwd \in Levels, args \in [name : CollNames, files : BOOLEAN] :
           Finish("coll delete", cwd, args, delete_coll(fs, cwd, args))

OutRenameCmd ==
    /\ Once
    /\ now' = now + 1
    /\ \E cwd \in Levels,
          args \in [exists : BOOLEAN, current : {PathA, PathB, PathOutside},
                    renamed : {PathA, PathB, PathOutside}],
          on_disk \in BOOLEAN :
           Finish("rename", cwd, args, rename_data(fs, cwd, args, on_disk))

NextOutcomes ==
    OutCreateCmd \/ OutPushCmd \/ OutUpdateCmd \/ OutPopCmd \/ OutDeleteCmd \/ OutRenameCmd

SpecOutcomes == InitColl /\ [][NextOutcomes]_vars

----------------------------------------------------------------------------
(* C22: push, pop, update and delete of a collection the store does not    *)
(* hold, create of a collection it holds, and rename of a key without a    *)
(* file entry succeed, print their message and leave the disk as it was.   *)

ResolvedKey(path) == from_root(last.mem.root, path, last.cwd)

C22_NotFoundChangesNothing ==
    /\ (last.cmd \in {"coll push", "coll pop", "coll update", "coll delete"}
            /\ last.args.name \notin DOMAIN DbBefore.collections) =>
           /\ last.ok
           /\ last.msgs = <<Said("print", "collection not found", <<>>)>>
           /\ fs = last.before
    /\ (last.cmd = "coll create" /\ last.args.name \in DOMAIN DbBefore.collections) =>
           /\ last.ok
           /\ last.msgs = <<Said("print", "the specified collection already exists", <<>>)>>
           /\ fs = last.before
    /\ (last.cmd = "rename"
            /\ ResolvedKey(last.args.current).ok
            /\ ResolvedKey(last.args.renamed).ok
            /\ ResolvedKey(last.args.current).db_entry \notin DOMAIN DbBefore.files) =>
           /\ last.ok
           /\ last.msgs = <<"current not found in db">>
           /\ fs = last.before

\* create of c on a store where c has members
C22_Witness ==
    /\ last.cmd = "coll create"
    /\ last.args.name = "c"
    /\ "c" \in DOMAIN DbBefore.collections
    /\ DbBefore.collections["c"] = {<<"a">>, <<"b">>}
    /\ DbAfter.collections["c"] = {<<"a">>, <<"b">>}
    /\ last.msgs # <<>>

\* a pop on a collection the store does not hold
C22_PopNotFound ==
    /\ last.cmd = "coll pop"
    /\ last.args.name = "x"
    /\ last.args.files = <<PathA>>
    /\ "c" \in DOMAIN DbBefore.collections
    /\ <<"a">> \in DbBefore.collections["c"]
    /\ last.ok
    /\ fs = last.before

\* a rename of a key without an entry to a key with one
C22_RenameNotFound ==
    /\ last.cmd = "rename"
    /\ last.args.current = PathA
    /\ last.args.renamed = PathB
    /\ last.cwd = 0
    /\ DOMAIN DbBefore.files = {<<"b">>}
    /\ last.msgs = <<"current not found in db">>
    /\ fs = last.before

----------------------------------------------------------------------------
(* tags.rs: the parsers of the command line.  An argument is a sequence of *)
(* characters; a name or a text kept from it is the string of those        *)
(* characters.                                                             *)

RECURSIVE Text(_)
Text(chars) == IF Len(chars) = 0 THEN "" ELSE chars[1] \o Text(Tail(chars))

Tab == "\t"
Letters == {"a", "e", "f", "l", "r", "s", "t", "u", "x"}
Digits == {"0", "1", "2", "3", "4", "5", "6", "7", "8", "9"}

\* char::is_control, char::is_whitespace on the characters of the model
is_control(ch) == ch = Tab
is_whitespace(ch) == ch \in {" ", Tab}

INVALID_CHARS == <<"\\", ":", ",", "!">>

\* <TagKey as FromStr>::from_str
TagKey_from_str(value) ==
    IF \E i \in 1 .. Len(value) :
           \/ is_control(value[i])
           \/ is_whitespace(value[i])
           \/ \E j \in 1 .. Len(INVALID_CHARS) : INVALID_CHARS[j] = value[i]
    THEN [ok |-> FALSE, key |-> ""]
    ELSE [ok |-> TRUE, key |-> Text(value)]

\* str::split_once(':')
split_once(arg) ==
    IF \E i \in 1 .. Len(arg) : arg[i] = ":"
    THEN With(CHOOSE i \in 1 .. Len(arg) :
                  arg[i] = ":" /\ \A j \in 1 .. i - 1 : arg[j] # ":",
              LAMBDA at : Some(<<SubSeq(arg, 1, at - 1), SubSeq(arg, at + 1, Len(arg))>>))
    ELSE None

DigitValue(ch) == CHOOSE n \in 0 .. 9 : <<"0", "1", "2", "3", "4", "5", "6", "7", "8", "9">>[n + 1] = ch

RECURSIVE DecimalValue(_)
DecimalValue(digits) ==
    IF Len(digits) = 0 THEN 0
    ELSE 10 * DecimalValue(SubSeq(digits, 1, Len(digits) - 1)) + DigitValue(digits[Len(digits)])

\* str::parse::<i64>: an optional sign and one or more digits.  No text of
\* the model is long enough to leave the range of i64.
parse_num(value) ==
    With(IF Len(value) > 0 /\ value[1] \in {"+", "-"} THEN Tail(value) ELSE value,
         LAMBDA digits :
        IF Len(digits) = 0 \/ \E i \in 1 .. Len(digits) : digits[i] \notin Digits
        THEN None
        ELSE Some(IF value[1] = "-" THEN 0 - DecimalValue(digits) ELSE DecimalValue(digits)))

\* str::parse::<bool>
parse_bool(value) ==
    IF value = <<"t", "r", "u", "e">> THEN Some(TRUE)
    ELSE IF value = <<"f", "a", "l", "s", "e">> THEN Some(FALSE)
    ELSE None

\* the input of the url parser: C0 controls and spaces are trimmed from both
\* ends, tabs and newlines removed everywhere
RECURSIVE url_input(_)
url_input(value) ==
    IF Len(value) = 0 THEN value
    ELSE IF value[1] \in {" ", Tab} THEN url_input(Tail(value))
    ELSE IF value[Len(value)] \in {" ", Tab} THEN url_input(SubSeq(value, 1, Len(value) - 1))
    ELSE SelectSeq(value, LAMBDA ch : ch # Tab)

\* Url::parse without a base: the text needs a scheme, a letter followed by
\* letters, digits, '+', '-' or '.' up to the first colon.  What follows a
\* scheme that is not special is kept as an opaque path; the letters of the
\* model spell no special scheme and it has no '/'.
parse_url(value) ==
    With(url_input(value), LAMBDA input :
        IF /\ IsSome(split_once(input))
           /\ Len(Unwrap(split_once(input))[1]) > 0
           /\ Unwrap(split_once(input))[1][1] \in Letters
           /\ \A i \in 1 .. Len(Unwrap(split_once(input))[1]) :
                  Unwrap(split_once(input))[1][i] \in Letters \cup Digits \cup {"+", "-", "."}
        THEN Some(Text(input))
        ELSE None)

\* variant: a text is never taken for a URL
TagValue_from_no_url(value) ==
    IF IsSome(parse_num(value)) THEN Number(Unwrap(parse_num(value)))
    ELSE IF IsSome(parse_bool(value)) THEN Bool(Unwrap(parse_bool(value)))
    ELSE Simple(Text(value))

\* <TagValue as From<&str>>::from
TagValue_from(value) ==
    IF IsSome(parse_num(value)) THEN Number(Unwrap(parse_num(value)))
    ELSE IF IsSome(parse_bool(value)) THEN Bool(Unwrap(parse_bool(value)))
    ELSE IF IsSome(parse_url(value)) THEN Url(Unwrap(parse_url(value)))
    ELSE Simple(Text(value))

NoTag == <<"", None>>

parse_tag(arg) ==
    IF IsSome(split_once(arg))
    THEN With(Unwrap(split_once(arg)), LAMBDA name_value :
             IF Len(name_value[1]) = 0
             THEN [ok |-> FALSE, err |-> "tag name is empty", tag |-> NoTag]
             ELSE IF Len(name_value[2]) = 0
             THEN [ok |-> TRUE, err |-> "", tag |-> <<Text(name_value[1]), None>>]
             ELSE [ok |-> TRUE, err |-> "",
                   tag |-> <<Text(name_value[1]), Some(TagValue_from(name_value[2]))>>])
    ELSE IF Len(arg) = 0
    THEN [ok |-> FALSE, err |-> "tag is empty", tag |-> NoTag]
    ELSE [ok |-> TRUE, err |-> "", tag |-> <<Text(arg), None>>]

----------------------------------------------------------------------------
(* SpecParse: one command line with one tag argument, made of up to        *)
(* MaxParts pieces of text: set -t <arg> on a file or on the store itself, *)
(* up to the save, or get -i <arg>.                                        *)

MaxParts == 3

TextParts ==
    {<<"a">>, <<"1">>, <<"-">>, <<":">>, <<" ">>, <<",">>, <<"!">>, <<"\\">>, <<Tab>>,
     <<"t", "r", "u", "e">>, <<"u", ":", "x">>}

RECURSIVE Joined(_)
Joined(parts) == IF Len(parts) = 0 THEN <<>> ELSE parts[1] \o Joined(Tail(parts))

TagTexts == {Joined(parts) : parts \in UNION {[1 .. n -> TextParts] : n \in 0 .. MaxParts}}

InitParse ==
    /\ fs = EmptyTree
    /\ now = 1
    /\ last = NoLast
    /\ pc = <<>>
    /\ ctx = <<>>
    /\ hist = <<>>

\* clap runs value_parser(tags::parse_tag) on the argument; set_data runs
\* when it accepted
ParseSetCmd ==
    /\ Once
    /\ \E arg \in TagTexts, self_ \in BOOLEAN :
           \E parsed \in {parse_tag(arg)} :
               last' = [cmd |-> "set", arg |-> arg, self_ |-> self_, ok |-> parsed.ok,
                        err |-> parsed.err, tag |-> parsed.tag,
                        db |-> IF parsed.ok
                               THEN set_in_memory(
                                        [NoContext EXCEPT !.db = Db_default(0)],
                                        [NoSetArgs EXCEPT !.tag = <<parsed.tag>>,
                                                          !.self_ = self_,
                                                          !.files = IF self_ THEN <<>>
                                                                    ELSE <<PathA>>],
                                        0, now).ctx.db
                               ELSE Db_default(0)]
    /\ UNCHANGED <<fs, now, pc, ctx, hist>>

\* get -i <arg>: includes_tags: Vec<tags::TagKey>
ParseIncludeCmd ==
    /\ Once
    /\ \E arg \in TagTexts :
           last' = [cmd |-> "get", arg |-> arg, ok |-> TagKey_from_str(arg).ok,
                    key |-> TagKey_from_str(arg).key]
    /\ UNCHANGED <<fs, now, pc, ctx, hist>>

NextParse == ParseSetCmd \/ ParseIncludeCmd

SpecParse == InitParse /\ [][NextParse]_vars

----------------------------------------------------------------------------
(* C23: after set every name in the tags of the store and of every file    *)
(* entry is a validated name, one that TagKey accepts: without control     *)
(* character, whitespace, backslash, colon, comma or exclamation mark.     *)

ValidNames == {TagKey_from_str(arg).key : arg \in {a \in TagTexts : TagKey_from_str(a).ok}}

TagNamesIn(db) ==
    DOMAIN db.tags \cup UNION {DOMAIN db.files[key].tags : key \in DOMAIN db.files}

C23_StoredNamesValidated ==
    last.cmd = "set" => TagNamesIn(last.db) \subseteq ValidNames

\* set -t "a b" on a file: the entry has the tag "a b"
C23_NameWithSpaceStored ==
    /\ last.cmd = "set"
    /\ last.arg = <<"a", " ", "a">>
    /\ ~last.self_
    /\ last.ok
    /\ DOMAIN last.db.files[<<"a">>].tags = {"a a"}
    /\ ~TagKey_from_str(<<"a", " ", "a">>).ok

\* a colon is the one character of the list a name never has
C23_NoColonInName ==
    last.cmd = "set" =>
        \A arg \in TagTexts :
            Text(arg) \in TagNamesIn(last.db) => \A i \in 1 .. Len(arg) : arg[i] # ":"

----------------------------------------------------------------------------
(* C24: set -t <arg> is rejected when the name, the text before the first  *)
(* colon or the whole argument without one, is empty.  Otherwise the tag   *)
(* has that name, and no value when there is no colon or nothing follows   *)
(* it; a text that follows it becomes a Number when the integer parser     *)
(* accepts it, else a Bool when the boolean parser does, else a Url when   *)
(* the URL parser does, else a Simple of the text.                         *)

HasColon(arg) == \E i \in 1 .. Len(arg) : arg[i] = ":"

NamePart(arg) ==
    IF HasColon(arg)
    THEN SubSeq(arg, 1, (CHOOSE i \in 1 .. Len(arg) :
                            arg[i] = ":" /\ ~HasColon(SubSeq(arg, 1, i - 1))) - 1)
    ELSE arg

ValuePart(arg) == SubSeq(arg, Len(NamePart(arg)) + 2, Len(arg))

Accepting(value) ==
    <<IsSome(parse_num(value)), IsSome(parse_bool(value)), IsSome(parse_url(value)), TRUE>>

FirstAccepting(value) == CHOOSE i \in 1 .. 4 : Accepting(value)[i] /\ \A j \in 1 .. i - 1 : ~Accepting(value)[j]

C24_ClassifiedByPrecedence ==
    last.cmd = "set" =>
        /\ last.ok <=> Len(NamePart(last.arg)) > 0
        /\ last.ok =>
               /\ last.tag[1] = Text(NamePart(last.arg))
               /\ IsSome(last.tag[2]) <=> Len(ValuePart(last.arg)) > 0
               /\ IsSome(last.tag[2]) =>
                      /\ Unwrap(last.tag[2]).variant =
                             <<"Number", "Bool", "Url", "Simple">>[FirstAccepting(ValuePart(last.arg))]
                      /\ Unwrap(last.tag[2]).variant = "Number" =>
                             Some(Unwrap(last.tag[2]).num) = parse_num(ValuePart(last.arg))
                      /\ Unwrap(last.tag[2]).variant = "Bool" =>
                             Some(Unwrap(last.tag[2]).flag) = parse_bool(ValuePart(last.arg))
                      /\ Unwrap(last.tag[2]).variant = "Simple" =>
                             Unwrap(last.tag[2]).text = Text(ValuePart(last.arg))
               /\ \A key \in DOMAIN last.db.files : last.db.files[key].tags[last.tag[1]] = last.tag[2]

\* a:u:x is neither an integer nor a boolean and is stored as a Url
C24_Witness ==
    /\ last.cmd = "set"
    /\ last.arg = <<"a", ":", "u", ":", "x">>
    /\ last.tag = <<"a", Some(Url("u:x"))>>
    /\ ~last.self_
    /\ last.db.files[<<"a">>].tags["a"] = Some(Url("u:x"))

C24_NumberWitness ==
    /\ last.cmd = "set"
    /\ last.arg = <<"a", ":", "1">>
    /\ last.tag = <<"a", Some(Number(1))>>

C24_BoolWitness ==
    /\ last.cmd = "set"
    /\ last.arg = <<"a", ":", "t", "r", "u", "e">>
    /\ last.tag = <<"a", Some(Bool(TRUE))>>

C24_PresenceWitness ==
    /\ last.cmd = "set"
    /\ last.arg = <<"a", ":">>
    /\ last.tag = <<"a", None>>

C24_EmptyNameWitness ==
    /\ last.cmd = "set"
    /\ last.arg = <<":", "1">>
    /\ ~last.ok
    /\ last.err = "tag name is empty"

----------------------------------------------------------------------------
(* SpecVanish: one set on a store while a drop of that store runs, each a  *)
(* sequence of system calls: set reads the db file, opens it with truncate *)
(* and writes; drop reads it, removes it and removes the .fsm directory.   *)
(* pc is where set is, hist where drop is, last the last call of set's     *)
(* save.                                                                   *)

InitVanish ==
    /\ fs \in InitedTrees
    /\ now = 1
    /\ last = NoLast
    /\ pc = "start"
    /\ ctx = NoContext
    /\ hist = [at |-> "start", path |-> DbPath(0, "Json")]

\* set_data up to the save
VanishLoad ==
    /\ pc = "start"
    /\ \E cwd \in Levels, args \in SetInputs :
       \E loaded \in {cwd_load(fs, cwd)} :
           IF ~loaded.ok
           THEN /\ pc' = "failed"
                /\ UNCHANGED ctx
           ELSE /\ pc' = "loaded"
                /\ ctx' = set_in_memory(loaded.ctx, args, cwd, now).ctx
    /\ UNCHANGED <<fs, now, last, hist>>

\* save, write_file(false): the open
VanishOpen ==
    /\ pc = "loaded"
    /\ \E opened \in {open_truncate(fs, ctx.path, FALSE)} :
           /\ pc' = IF opened.ok THEN "opened" ELSE "failed"
           /\ fs' = opened.fs
           /\ last' = [cmd |-> "open", before |-> fs, ok |-> opened.ok]
    /\ UNCHANGED <<now, ctx, hist>>

\* save, write_file(false): the serializer writes through the open file
VanishWrite ==
    /\ pc = "opened"
    /\ pc' = "done"
    /\ fs' = write_serialized(fs, ctx)
    /\ last' = [cmd |-> "write", before |-> fs, ok |-> TRUE]
    /\ UNCHANGED <<now, ctx, hist>>

\* drop_db: Context::cwd_load
VanishDropLoad ==
    /\ hist.at = "start"
    /\ \E cwd \in Levels :
       \E loaded \in {cwd_load(fs, cwd)} :
           hist' = IF loaded.ok THEN [at |-> "loaded", path |-> loaded.ctx.path]
                   ELSE [hist EXCEPT !.at = "failed"]
    /\ UNCHANGED <<fs, now, last, pc, ctx>>

\* drop_db: std::fs::remove_file(db.path())
VanishDropFile ==
    /\ hist.at = "loaded"
    /\ \E file_gone \in {remove_file(fs, hist.path)} :
           /\ hist' = [hist EXCEPT !.at = IF file_gone.ok THEN "file gone" ELSE "failed"]
           /\ fs' = file_gone.fs
    /\ UNCHANGED <<now, last, pc, ctx>>

\* drop_db: std::fs::remove_dir(dir)
VanishDropDir ==
    /\ hist.at = "file gone"
    /\ \E dir_gone \in {remove_dir(fs, hist.path.level)} :
           /\ hist' = [hist EXCEPT !.at = IF dir_gone.ok THEN "done" ELSE "failed"]
           /\ fs' = dir_gone.fs
    /\ UNCHANGED <<now, last, pc, ctx>>

NextVanish ==
    \/ VanishLoad
    \/ VanishOpen
    \/ VanishWrite
    \/ VanishDropLoad
    \/ VanishDropFile
    \/ VanishDropDir

SpecVanish == InitVanish /\ [][NextVanish]_vars

----------------------------------------------------------------------------
(* C25: no call of save makes a db file where there was none.  When the    *)
(* db file the store was loaded from is gone at the time save opens it,    *)
(* the open fails, the command ends with the error, and there is no db     *)
(* file afterwards.                                                        *)

NoDbFile(tree) ==
    \A level \in Levels, format \in Formats : tree[level].db[format].kind # "file"

C25_RemovedWhileOpen ==
    /\ last.cmd = "write"
    /\ pc = "done"
    /\ NoDbFile(fs)

----------------------------------------------------------------------------
(* SpecGet: one get on a store whose own tags and times and whose file     *)
(* entries a, b and d1 vary: with --all from the store root, or without it *)
(* from any directory, with and without --self, for the paths given or,    *)
(* when none is, for the default of the files argument.                    *)

GetTimes == {[created |-> 0, updated |-> None], [created |-> 1, updated |-> None],
             [created |-> 0, updated |-> Some(2)], [created |-> 1, updated |-> Some(2)]}

GetEntries(times, tags) ==
    {[FileData_default(time.created) EXCEPT !.updated = time.updated, !.tags = tags] :
        time \in times}

GetFiles ==
    {[key \in DOMAIN a \cup DOMAIN b \cup DOMAIN d |->
         IF key \in DOMAIN a THEN a[key] ELSE IF key \in DOMAIN b THEN b[key] ELSE d[key]] :
        a \in {EmptyMap} \cup [{<<"a">>} -> GetEntries(GetTimes, [n \in {"t1"} |-> None])],
        b \in {EmptyMap} \cup [{<<"b">>} -> GetEntries({[created |-> 1, updated |-> None],
                                                      [created |-> 0, updated |-> Some(2)]},
                                                     EmptyMap)],
        d \in {EmptyMap} \cup [{<<"d1">>} -> GetEntries({[created |-> 1, updated |-> None]},
                                                      EmptyMap)]}

GetDbs ==
    {[Db_default(time.created) EXCEPT !.updated = time.updated, !.tags = tags,
                                      !.files = files] :
        time \in GetTimes, tags \in {EmptyMap, [n \in {"t1"} |-> None]}, files \in GetFiles}

InitGet ==
    /\ \E db \in GetDbs :
           fs = save_changed(init_db(EmptyTree, 0, "Json", 0).fs, 0, db).fs
    /\ now = 3
    /\ last = NoLast
    /\ pc = <<>>
    /\ ctx = <<>>
    /\ hist = <<>>

\* GetArgs.files: default_value("./")
PathDefault == RelPath(<<".">>)

GetAllCmd ==
    /\ Once
    /\ now' = now + 1
    /\ \E self_ \in BOOLEAN, sort_by \in SortLists, includes_tags \in {<<>>, <<"t1">>} :
           \E args \in {[NoGetArgs EXCEPT !.all = TRUE, !.self_ = self_, !.sort_by = sort_by,
                                          !.includes_tags = includes_tags,
                                          !.files = <<PathDefault>>]} :
               Finish("get", 0, args, get_data(fs, 0, args))

GetNamedCmd ==
    /\ Once
    /\ now' = now + 1
    /\ \E cwd \in Levels, self_ \in BOOLEAN, sort_by \in {<<"Name">>, <<"Updated">>},
          includes_tags \in {<<>>, <<"t1">>}, files \in {<<PathDefault>>, <<PathA>>} :
           \E args \in {[NoGetArgs EXCEPT !.self_ = self_, !.sort_by = sort_by,
                                          !.includes_tags = includes_tags,
                                          !.files = files]} :
               Finish("get", cwd, args, get_data(fs, cwd, args))

NextGet == GetAllCmd \/ GetNamedCmd

SpecGet == InitGet /\ [][NextGet]_vars

----------------------------------------------------------------------------
(* C26: get --all lists the store itself, under the key !SELF, when it     *)
(* passes the filter, together with every file entry that passes it, and   *)
(* the list is in the order of the criteria, whatever they are: of two     *)
(* listed items the one further down is never before the other by the      *)
(* first criterion that tells them apart.                                  *)

\* the items get printed, in the order it printed them
Listed ==
    [i \in 1 .. Len(SelectSeq(last.msgs, LAMBDA line : line.kind = "data")) |->
        [key |-> Borrowed(SelectSeq(last.msgs, LAMBDA line : line.kind = "data")[i].entry),
         meta |-> Unwrap(SelectSeq(last.msgs, LAMBDA line : line.kind = "data")[i].meta)]]

Passes(container) ==
    \A i \in 1 .. Len(last.args.includes_tags) :
        last.args.includes_tags[i] \in DOMAIN container.tags

C26_StoreEntryInOrder ==
    (last.cmd = "get" /\ last.args.all) =>
        /\ last.ok
        /\ {Listed[i] : i \in 1 .. Len(Listed)}
               = {[key |-> Borrowed(<<"!SELF">>), meta |-> Meta(DbBefore)] : x \in {y \in {1} : Passes(DbBefore)}}
                     \cup {[key |-> Borrowed(key), meta |-> Meta(DbBefore.files[key])] :
                              key \in {k \in DOMAIN DbBefore.files : Passes(DbBefore.files[k])}}
        /\ \A i, j \in 1 .. Len(Listed) : i < j => InOrder(last.args.sort_by, Listed[i], Listed[j])

\* sorted by creation time alone, the store comes after a file entry that is older
C26_Witness ==
    /\ last.cmd = "get"
    /\ last.args.all
    /\ last.args.sort_by = <<"Created">>
    /\ Len(Listed) = 3
    /\ Listed[3].key.name = <<"!SELF">>
    /\ Listed[2].meta.created < Listed[3].meta.created

----------------------------------------------------------------------------
(* C27: get --self without --all and without a path prints the store's own *)
(* entry when it passes the filter, and nothing else but the total: no     *)
(* file entry is looked up or listed.                                      *)

SelfAlone ==
    /\ last.cmd = "get"
    /\ last.args.self_
    /\ ~last.args.all
    /\ last.args.files = <<PathDefault>>

C27_SelfYieldsOnlyStore ==
    SelfAlone =>
        /\ last.ok
        /\ \A i \in 1 .. Len(last.msgs) : last.msgs[i].kind \in {"data", "total"}
        /\ \A i \in 1 .. Len(Listed) : Listed[i].key.name = <<"!SELF">>
        /\ Len(Listed) = IF Passes(DbBefore) THEN 1 ELSE 0

\* from the directory d1, which has an entry: the store and d1 are listed
C27_WorkingDirectoryListed ==
    /\ SelfAlone
    /\ last.cwd = 1
    /\ Len(Listed) = 2
    /\ Listed[1].key.name = <<"!SELF">>
    /\ Listed[2].key.name = <<"d1">>
    /\ last.msgs[3] = Line("total", "", <<>>, None, FALSE, 2)

\* from the store root: the key of the root itself is looked up
C27_RootLookedUp ==
    /\ SelfAlone
    /\ last.cwd = 0
    /\ last.msgs[1] = Line("not found", "", <<>>, None, FALSE, 0)

\* what holds: the store's entry, then what the default path ./ gives
C27_SelfAndWorkingDirectory ==
    SelfAlone =>
        /\ last.ok
        /\ {Listed[i].key.name : i \in 1 .. Len(Listed)}
               = {<<"!SELF">> : x \in {y \in {1} : Passes(DbBefore)}}
                     \cup {key \in {DirPath(last.cwd)} \cap DOMAIN DbBefore.files :
                              Passes(DbBefore.files[key])}

----------------------------------------------------------------------------
(* C28: a rename that succeeds, of a key with an entry to a key without    *)
(* one, leaves the entry as it was under the new key and no entry under    *)
(* the old one; every other file entry, every collection and the store's   *)
(* own data are as before, so a collection that held the old key still     *)
(* holds it and does not hold the new one.                                 *)

RenamedToFree ==
    /\ last.cmd = "rename"
    /\ last.ok
    /\ last.msgs = <<>>
    /\ ResolvedKey(last.args.current).db_entry \in DOMAIN DbBefore.files
    /\ ResolvedKey(last.args.renamed).db_entry \notin DOMAIN DbBefore.files

C28_RenameMovesEntryOnly ==
    RenamedToFree =>
        /\ DOMAIN DbAfter.files
               = (DOMAIN DbBefore.files \ {ResolvedKey(last.args.current).db_entry})
                     \cup {ResolvedKey(last.args.renamed).db_entry}
        /\ DbAfter.files[ResolvedKey(last.args.renamed).db_entry]
               = DbBefore.files[ResolvedKey(last.args.current).db_entry]
        /\ \A key \in DOMAIN DbAfter.files \ {ResolvedKey(last.args.renamed).db_entry} :
               DbAfter.files[key] = DbBefore.files[key]
        /\ DbAfter.collections = DbBefore.collections
        /\ [DbAfter EXCEPT !.files = EmptyMap] = [DbBefore EXCEPT !.files = EmptyMap]

\* a renamed to b while the collection c holds a
C28_Witness ==
    /\ RenamedToFree
    /\ ResolvedKey(last.args.current).db_entry = <<"a">>
    /\ ResolvedKey(last.args.renamed).db_entry = <<"b">>
    /\ "c" \in DOMAIN DbBefore.collections
    /\ DbBefore.collections["c"] = {<<"a">>}
    /\ DbAfter.collections["c"] = {<<"a">>}
    /\ DOMAIN DbAfter.files = {<<"b">>}
    /\ IsSome(DbAfter.files[<<"b">>].tags["t1"])

----------------------------------------------------------------------------
(* move.rs.  on_disk is what fs::check_exists finds for the destination. *)

\* BTreeMap::extend with the entries of another map
extend_map(tags, src_tags) ==
    [n \in DOMAIN tags \cup DOMAIN src_tags |->
        IF n \in DOMAIN src_tags THEN src_tags[n] ELSE tags[n]]

\* get_src_entry: the entry is removed from the files and handed out
get_src_entry(context, path, cwd) ==
    With(from_root(context.root, path, cwd), LAMBDA src :
        IF ~src.ok
        THEN [ok |-> FALSE, err |-> src.err, ctx |-> context, data |-> FileData_default(0)]
        ELSE IF ~ContainsKey(context.db.files, src.db_entry)
        THEN [ok |-> FALSE, err |-> "source not found in db", ctx |-> context,
              data |-> FileData_default(0)]
        ELSE [ok |-> TRUE, err |-> "",
              ctx |-> [context EXCEPT !.db.files = Remove(@, src.db_entry)],
              data |-> context.db.files[src.db_entry]])

\* get_dst_entry: the entry of the destination, stamped when there is one,
\* made when there is none
get_dst_entry(context, path, cwd, check_exists, on_disk, t) ==
    With(from_root(context.root, path, cwd), LAMBDA dst :
        IF ~dst.ok
        THEN [ok |-> FALSE, err |-> dst.err, ctx |-> context, key |-> <<>>]
        ELSE IF check_exists /\ ~on_disk
        THEN [ok |-> FALSE, err |-> "the destination path does not exist", ctx |-> context,
              key |-> <<>>]
        ELSE [ok |-> TRUE, err |-> "",
              ctx |-> IF ContainsKey(context.db.files, dst.db_entry)
                      THEN [context EXCEPT !.db.files[dst.db_entry].updated = Some(t)]
                      ELSE [context EXCEPT
                                !.db.files = Insert(@, dst.db_entry, FileData_default(t))],
              key |-> dst.db_entry])

\* move_data, the first half of each branch: what is taken, and from where
move_source(context, cwd, args) ==
    IF IsSome(args.from)
    THEN With(get_src_entry(context, Unwrap(args.from), cwd), LAMBDA src :
             [ok |-> src.ok, err |-> src.err, ctx |-> src.ctx,
              tags |-> IF args.comment THEN EmptyMap ELSE src.data.tags,
              comment |-> IF args.tags THEN None ELSE src.data.comment])
    ELSE [ok |-> TRUE, err |-> "",
          ctx |-> [context EXCEPT
                       !.db.tags = IF args.comment THEN @ ELSE EmptyMap,
                       !.db.comment = IF args.tags THEN @ ELSE None],
          tags |-> IF args.comment THEN EmptyMap ELSE context.db.tags,
          comment |-> IF args.tags THEN None ELSE context.db.comment]

\* move_data, the second half of each branch: where it is put
move_destination(context, cwd, args, src_tags, src_comment, on_disk, t) ==
    IF IsSome(args.to)
    THEN With(get_dst_entry(context, Unwrap(args.to), cwd, args.exists, on_disk, t),
              LAMBDA dst :
             IF ~dst.ok
             THEN [ok |-> FALSE, err |-> dst.err, ctx |-> context]
             ELSE [ok |-> TRUE, err |-> "",
                   ctx |-> [dst.ctx EXCEPT
                                !.db.files[dst.key].tags =
                                    IF args.comment THEN @ ELSE extend_map(@, src_tags),
                                !.db.files[dst.key].comment =
                                    IF ~args.tags /\ IsSome(src_comment)
                                    THEN src_comment ELSE @]])
    ELSE [ok |-> TRUE, err |-> "",
          ctx |-> [context EXCEPT
                       !.db.updated = IF args.comment THEN @ ELSE Some(t),
                       !.db.tags = IF args.comment THEN @ ELSE extend_map(@, src_tags),
                       !.db.comment = IF ~args.tags /\ IsSome(src_comment)
                                      THEN src_comment ELSE @]]

move_data(tree, cwd, args, on_disk, t) ==
    With(cwd_load(tree, cwd), LAMBDA loaded :
        IF ~loaded.ok
        THEN Outcome(FALSE, loaded.err, <<>>, tree, NoContext)
        ELSE With(move_source(loaded.ctx, cwd, args), LAMBDA src :
             IF ~src.ok
             THEN Outcome(FALSE, src.err, <<>>, tree, src.ctx)
             ELSE With(move_destination(src.ctx, cwd, args, src.tags, src.comment,
                                        on_disk, t),
                       LAMBDA dst :
                  IF ~dst.ok
                  THEN Outcome(FALSE, dst.err, <<>>, tree, dst.ctx)
                  ELSE With(save(tree, dst.ctx), LAMBDA saved :
                           Outcome(saved.ok, saved.err, <<>>, saved.fs, dst.ctx)))))

----------------------------------------------------------------------------
(* SpecMove: one move on a store whose own tags and comment and whose      *)
(* entries a and b vary: of the tags, of the comment or of both, from a    *)
(* file or from the store, to a file or to the store.                      *)

MoveEntries ==
    {[FileData_default(0) EXCEPT !.tags = tags, !.comment = comment] :
        tags \in {EmptyMap, [n \in {"t1"} |-> Some(Number(1))]},
        comment \in {None, Some("c")}}

MoveFiles == UNION {[keys -> MoveEntries] : keys \in SUBSET {<<"a">>, <<"b">>}}

MoveDbs ==
    {[Db_default(0) EXCEPT !.tags = tags, !.comment = comment, !.files = files] :
        tags \in {EmptyMap, [n \in {"t2"} |-> None]},
        comment \in {None, Some("x")},
        files \in MoveFiles}

InitMove ==
    /\ \E format \in Formats, db \in MoveDbs :
           fs = save_changed(init_db(EmptyTree, 0, format, 0).fs, 0, db).fs
    /\ now = 1
    /\ last = NoLast
    /\ pc = <<>>
    /\ ctx = <<>>
    /\ hist = <<>>

\* clap: --tags and --comment exclude each other; a source and a
\* destination are given, and at most one of them is the store
MoveInputs ==
    {args \in [tags : BOOLEAN, comment : BOOLEAN, exists : BOOLEAN,
               from : {None, Some(PathA), Some(PathB)},
               to : {None, Some(PathA), Some(PathB)}] :
        /\ ~(args.tags /\ args.comment)
        /\ IsSome(args.from) \/ IsSome(args.to)}

MoveCmd ==
    /\ Once
    /\ now' = now + 1
    /\ \E cwd \in Levels, args \in MoveInputs :
           \E on_disk \in (IF args.exists /\ IsSome(args.to) THEN BOOLEAN ELSE {TRUE}) :
               Finish("move", cwd, args, move_data(fs, cwd, args, on_disk, now))

SpecMove == InitMove /\ [][MoveCmd]_vars

----------------------------------------------------------------------------
(* C29: after a move of the tags alone from a file entry, the comment of   *)
(* that entry is still stored under its key, and after a move of the       *)
(* comment alone its tags are.                                             *)

MovedFromFile ==
    /\ last.cmd = "move"
    /\ last.ok
    /\ IsSome(last.args.from)

SourceKey == ResolvedKey(Unwrap(last.args.from)).db_entry

C29_OnlyRequestedPartMoves ==
    /\ (MovedFromFile /\ last.args.tags) =>
           /\ SourceKey \in DOMAIN DbAfter.files
           /\ DbAfter.files[SourceKey].comment = DbBefore.files[SourceKey].comment
    /\ (MovedFromFile /\ last.args.comment) =>
           /\ SourceKey \in DOMAIN DbAfter.files
           /\ DbAfter.files[SourceKey].tags = DbBefore.files[SourceKey].tags

\* the tags of a moved to b: a had a comment, and no entry has it afterwards
C29_SourceCommentLost ==
    /\ MovedFromFile
    /\ last.args.tags
    /\ SourceKey = <<"a">>
    /\ last.args.to = Some(PathB)
    /\ DOMAIN DbBefore.files = {<<"a">>, <<"b">>}
    /\ DbBefore.files[<<"a">>].comment = Some("c")
    /\ DbBefore.files[<<"b">>].comment = None
    /\ DOMAIN DbAfter.files = {<<"b">>}
    /\ DbAfter.files[<<"b">>].comment = None
    /\ DbAfter.files[<<"b">>].tags = DbBefore.files[<<"a">>].tags

\* with the store as the source the part not asked for stays
C29_StoreKeepsTheRest ==
    (last.cmd = "move" /\ last.ok /\ ~IsSome(last.args.from)) =>
        /\ last.args.tags => DbAfter.comment = DbBefore.comment
        /\ last.args.comment => DbAfter.tags = DbBefore.tags

\* a move from a file entry always removes the entry
C29_SourceEntryRemoved ==
    (MovedFromFile /\ last.args.to # last.args.from) => SourceKey \notin DOMAIN DbAfter.files

----------------------------------------------------------------------------
(* C30: on a disk that starts without any .fsm directory, no .fsm          *)
(* directory ever holds more than one db file.  An init changes the disk   *)
(* only when the .fsm directory of its working directory holds none of the *)
(* three db files, and where one is, of whatever format, it is left as it  *)
(* was.                                                                    *)

StoreFiles(tree, level) == {format \in Formats : tree[level].db[format].kind = "file"}

C30_OneStoreFile ==
    /\ \A level \in Levels : Cardinality(StoreFiles(fs, level)) <= 1
    /\ last.cmd = "init" =>
           /\ StoreFiles(last.before, last.cwd) # {} => fs = last.before
           /\ \A level \in Levels :
                  \A format \in StoreFiles(last.before, level) :
                      fs[level].db[format] = last.before[level].db[format]

\* init --format binary where a json store with an entry is: nothing changes
C30_Witness ==
    /\ last.cmd = "init"
    /\ last.args = "Binary"
    /\ StoreFiles(last.before, last.cwd) = {"Json"}
    /\ DOMAIN cwd_load(last.before, last.cwd).ctx.db.files # {}
    /\ fs = last.before
    /\ last.msgs = <<"a db file already exists">>

\* init after a drop makes a store again, of another format
C30_InitAfterDrop ==
    /\ last.cmd = "init"
    /\ last.args = "Binary"
    /\ now = 3
    /\ StoreFiles(last.before, last.cwd) = {}
    /\ StoreFiles(fs, last.cwd) = {"Binary"}
    /\ last.before[last.cwd].fsm = "none"

====
